---------------------------- MODULE Spec2Model ----------------------------
(***************************************************************************)
(* Model of graft's review pipeline (github.com/mwistrand/graft):          *)
(*   - provider.GenerateCacheKey          (internal/provider/cache.go)     *)
(*   - cli.buildFileList / buildGroupedFileList (internal/cli/review.go)   *)
(*   - cli.runReview, the orchestrator with its background ordering        *)
(*     goroutine and completion channel   (internal/cli/review.go)         *)
(*   - cli.categorizeFile / describeStatus (internal/cli/review.go)        *)
(*   - provider.ReviewCache and the JSON form of provider.CachedReview     *)
(*                                        (internal/provider/cache.go)     *)
(*   - copilot.ProxyManager.Stop, run by runReview's deferred cleanup, and *)
(*     concurrent EnsureRunning, Start and Stop calls on one manager       *)
(*                               (internal/provider/copilot/proxy.go)      *)
(*   - git.parseNumstat / parseNameStatus / extractNewPath                 *)
(*                                        (internal/git/diff.go)           *)
(*   - prompt.SelectGroups                (internal/prompt/prompt.go)      *)
(*   - analysis.Cache and GetOrAnalyze    (internal/analysis/cache.go)     *)
(*                                                                         *)
(* Go strings that are only compared for equality are TLA+ strings; the    *)
(* strings that GenerateCacheKey sorts and concatenates are sequences of   *)
(* byte values.                                                            *)
(***************************************************************************)
EXTENDS Integers, Sequences, FiniteSets, TLC

VARIABLES
    \* ---- GenerateCacheKey -------------------------------------------------
    baseRef,        \* the baseRef argument (byte string)
    commits,        \* the commits argument (sequence of git.Commit)
    cacheKey,       \* the returned key
    keyDone,        \* TRUE once GenerateCacheKey has been applied
    \* ---- buildGroupedFileList ---------------------------------------------
    gFiles,         \* the files argument (sequence of provider.OrderedFile)
    gSelected,      \* the selectedGroups argument (sequence of OrderGroup)
    gResult,        \* the returned slice
    gDone,          \* TRUE once buildGroupedFileList has been applied
    \* ---- runReview ---------------------------------------------------------
    pc,             \* where the main flow of runReview stands
    visited,        \* the places the main flow has been at
    ret,            \* what runReview returned: "none", "nil" or "err"
    skipSummary,    \* the --no-summary flag
    skipOrdering,   \* the --no-order flag
    aiProvider,     \* TRUE when aiProvider is not nil
    diffFiles,      \* diffResult.Files
    output,         \* what the main flow has printed and rendered, in order
    orderCh,        \* the buffer of the completion channel (capacity 1)
    chMade,         \* TRUE once orderCh has been made
    chWrites,       \* who has sent on orderCh, in order
    chReads,        \* how many values the main flow has received from orderCh
    bg,             \* where the background goroutine stands
    bgResult,       \* what OrderFiles returned to the goroutine
    cancelled,      \* TRUE once ctx is cancelled
    summary,        \* TRUE when summary is not nil
    sumCall,        \* the SummarizeChanges call: notcalled, running, ok, err
    firstDone,      \* which of the two AI calls returned first
    bgAtSumStart,   \* where the goroutine stood when SummarizeChanges was called
    result,         \* the orderResult received at the join
    hasOrdered,     \* TRUE when orderedFiles is not nil
    orderedFiles,   \* the ordering response kept by the main flow
    filesToReview,  \* the files to display
    idx,            \* the display loop's position (1-based)
    cleanup,        \* TRUE when initProvider returned a cleanup function
    waiter,         \* the goroutine of ProxyManager.Stop: none, running, exited
    \* ---- buildFileList ----------------------------------------------------
    lFiles,         \* the files argument (sequence of git.FileDiff)
    lOrder,         \* the aiOrder argument: [has, resp], has = FALSE for nil
    lResult,        \* the returned slice
    lDone,          \* TRUE once buildFileList has been applied
    \* ---- ReviewCache ------------------------------------------------------
    cacheDir,       \* TRUE when the cache directory exists
    cacheFiles,     \* the cache files: key of the file name -> content
    now,            \* the clock reading (time.Now())
    lastOp,         \* the last operation on the cache and what it returned
    lastSaved,      \* per key, the record of the last successful Save
    rtRecord,       \* the record given to Save in a Save/Load round trip
    rtPc,           \* where the round trip stands: save, load, done
    \* ---- getDiffFiles -----------------------------------------------------
    numstatOutput,     \* the lines of `git diff --numstat`
    nameStatusOutput,  \* the lines of `git diff --name-status`
    numstatMap,        \* what parseNumstat returned
    parsedFiles,       \* the files returned by parseNameStatus
    parsedStats,       \* the stats returned by parseNameStatus
    diffDone,          \* TRUE once getDiffFiles has parsed the two outputs
    \* ---- prompt.SelectGroups ----------------------------------------------
    selGroups,      \* the groups argument (sequence of provider.OrderGroup)
    selInteractive, \* what IsInteractive() returns
    selFormErr,     \* TRUE when form.Run() returns an error
    selChosen,      \* the names left ticked in the form
    selResult,      \* what SelectGroups returned: [err, groups]
    selDone,        \* TRUE once SelectGroups has been applied
    \* ---- analysis.GetOrAnalyze --------------------------------------------
    anFile,         \* the file .graft/analysis.json: [exists, readable, parses, data]
    anRuns,         \* how many times Analyzer.Analyze has returned an analysis
    anLast,         \* the last call of GetOrAnalyze and what it returned
    \* ---- copilot.ProxyManager ---------------------------------------------
    cmd,            \* m.cmd: 0 for nil, else the subprocess it refers to
    started,        \* m.started
    procs,          \* the subprocesses launched so far: [alive, signalled]
    tpc,            \* per caller, where its call stands
    tcmd,           \* per caller, the local variable cmd of Stop
    tcalls,         \* per caller, how many calls it has begun
    tlaunched,      \* per caller, the subprocess its EnsureRunning call launched
    tret            \* per caller, what its last EnsureRunning call returned

keyVars   == <<baseRef, commits, cacheKey, keyDone>>
groupVars == <<gFiles, gSelected, gResult, gDone>>
reviewVars == <<pc, visited, ret, skipSummary, skipOrdering, aiProvider, diffFiles,
                output, orderCh, chMade, chWrites, chReads, bg, bgResult, cancelled,
                summary, sumCall, firstDone, bgAtSumStart, result, hasOrdered,
                orderedFiles, filesToReview, idx, cleanup, waiter>>
listVars  == <<lFiles, lOrder, lResult, lDone>>
storeVars == <<cacheDir, cacheFiles, now, lastOp, lastSaved, rtRecord, rtPc>>
diffVars  == <<numstatOutput, nameStatusOutput, numstatMap, parsedFiles,
               parsedStats, diffDone>>
selectVars == <<selGroups, selInteractive, selFormErr, selChosen, selResult, selDone>>
analysisVars == <<anFile, anRuns, anLast>>
proxyVars == <<cmd, started, procs, tpc, tcmd, tcalls, tlaunched, tret>>
moreVars  == <<selectVars, analysisVars, proxyVars>>
vars      == <<keyVars, groupVars, reviewVars, listVars, storeVars, diffVars, moreVars>>

(***************************************************************************)
(* Bounds                                                                  *)
(***************************************************************************)
MaxCommits == 3     \* longest commit list given to GenerateCacheKey
MaxFiles   == 3     \* longest file list given to buildGroupedFileList
MaxSel     == 2     \* longest selected-group list
MaxPrio    == 2     \* file priorities are drawn from 1..MaxPrio
MaxListFiles == 2   \* longest diff file list given to buildFileList

\* All sequences over S of length at most n.
SeqsUpTo(S, n) == UNION {[1..k -> S] : k \in 0..n}

Last(s)  == s[Len(s)]
Front(s) == SubSeq(s, 1, Len(s) - 1)

Reverse(s) == [i \in 1..Len(s) |-> s[Len(s) + 1 - i]]

\* All reorderings of the sequence s.
PermutationsOf(s) ==
    {[i \in 1..Len(s) |-> s[p[i]]] :
        p \in {q \in [1..Len(s) -> 1..Len(s)] :
                  \A i, j \in 1..Len(s) : i # j => q[i] # q[j]}}

(***************************************************************************)
(* provider.GenerateCacheKey                                               *)
(***************************************************************************)
\* Byte strings used as commit hashes and base refs ("a", "ab", "b", ...).
CommitHashes == {<<1>>, <<1, 2>>, <<2>>}
BaseRefs     == {<<3>>, <<3, 1>>}
Commits      == {[Hash |-> h] : h \in CommitHashes}

\* Go's string comparison a < b: bytewise lexicographic, a proper prefix first.
RECURSIVE StringLess(_, _)
StringLess(a, b) ==
    IF b = <<>> THEN FALSE
    ELSE IF a = <<>> THEN TRUE
    ELSE IF Head(a) # Head(b) THEN Head(a) < Head(b)
    ELSE StringLess(Tail(a), Tail(b))

\* One insertion step of sort.Strings: x moves left past every greater string.
RECURSIVE InsertString(_, _)
InsertString(s, x) ==
    IF s = <<>> THEN <<x>>
    ELSE IF StringLess(x, Last(s)) THEN Append(InsertString(Front(s), x), Last(s))
    ELSE Append(s, x)

RECURSIVE SortStrings_Unsorted(_)
SortStrings_Unsorted(s) == s

\* sort.Strings(hashes)
RECURSIVE SortStrings(_)
SortStrings(s) ==
    IF s = <<>> THEN <<>>
    ELSE InsertString(SortStrings(Front(s)), Last(s))

\* hashes[i] = c.Hash
CommitHashList(cs) == [i \in 1..Len(cs) |-> cs[i].Hash]

\* The strings of a list written one after the other.
RECURSIVE Concat(_)
Concat(ss) == IF ss = <<>> THEN <<>> ELSE Head(ss) \o Concat(Tail(ss))

\* Variant: baseRef and the hashes are written without the 0 separators.
RECURSIVE KeyBytes_NoSeparator(_, _)
KeyBytes_NoSeparator(ref, hashes) == ref \o Concat(hashes)

\* The bytes written into the digest: baseRef, 0, then each hash followed by 0.
RECURSIVE KeyBytes(_, _)
KeyBytes(ref, hashes) ==
    IF hashes = <<>> THEN ref \o <<0>>
    ELSE KeyBytes(ref, Front(hashes)) \o Last(hashes) \o <<0>>

\* hex.EncodeToString(h.Sum(nil))[:16]: the digest is taken as collision-free,
\* so the key stands for the byte stream that was hashed.
Sha256Hex16(bytes) == [sha256 |-> bytes]

GenerateCacheKey(ref, cs) ==
    Sha256Hex16(KeyBytes(ref, SortStrings(CommitHashList(cs))))

(***************************************************************************)
(* provider.ReviewCache: the cached records and their JSON documents       *)
(***************************************************************************)
\* A Go slice: nil, or a (possibly empty) sequence of elements.
NilSlice  == [null |-> TRUE,  elems |-> <<>>]
Slice(s)  == [null |-> FALSE, elems |-> s]

\* A Go pointer field: nil, or the value pointed to.
Nil(zero) == [has |-> FALSE, val |-> zero]
Ptr(v)    == [has |-> TRUE,  val |-> v]

\* time.Time: the wall-clock instant (at nanosecond resolution) and whether
\* the value carries a monotonic clock reading, as every time.Now() does.
Time(wall, mono) == [wall |-> wall, mono |-> mono]
ZeroTime == Time(0, FALSE)

\* JSON values.
JNull      == [t |-> "null",   v |-> <<>>]
JString(s) == [t |-> "string", v |-> <<s>>]
JNumber(n) == [t |-> "number", v |-> <<n>>]
JArray(es) == [t |-> "array",  v |-> es]
JObject(m) == [t |-> "object", v |-> <<m>>]
NoMembers  == [k \in {} |-> JNull]

\* A member of a JSON object; with omitempty it is left out when empty.
Member(name, value) == name :> value
OmitEmpty(name, empty, value) == IF empty THEN NoMembers ELSE name :> value

\* Whether a JSON object has a member; a member that is missing leaves the
\* field it would be read into at its zero value.
Has(m, name) == name \in DOMAIN m

UnmarshalString(j) == j.v[1]
UnmarshalNumber(j) == j.v[1]

\* encoding/json on a []string field: nil is null, anything else an array.
MarshalStrings(s) ==
    IF s.null THEN JNull ELSE JArray([i \in 1..Len(s.elems) |-> JString(s.elems[i])])
UnmarshalStrings(j) ==
    IF j.t = "null" THEN NilSlice
    ELSE Slice([i \in 1..Len(j.v) |-> UnmarshalString(j.v[i])])

\* time.Time.MarshalJSON writes the wall-clock instant as RFC 3339 text with
\* nanoseconds; the monotonic reading is not part of the text.
MarshalTime(tm) == JString([rfc3339nano |-> tm.wall])
\* time.Time.UnmarshalJSON parses the text: a Time without monotonic reading.
UnmarshalTime(j) == Time(j.v[1].rfc3339nano, FALSE)

\* provider.OrderedFile
MarshalOrderedFile(f) ==
    JObject(Member("path", JString(f.Path))
            @@ Member("category", JString(f.Category))
            @@ Member("priority", JNumber(f.Priority))
            @@ Member("description", JString(f.Description))
            @@ OmitEmpty("group", f.Group = "", JString(f.Group)))
UnmarshalOrderedFile(j) ==
    LET m == j.v[1]
    IN  [Path        |-> IF Has(m, "path") THEN UnmarshalString(m["path"]) ELSE "",
         Category    |-> IF Has(m, "category") THEN UnmarshalString(m["category"]) ELSE "",
         Priority    |-> IF Has(m, "priority") THEN UnmarshalNumber(m["priority"]) ELSE 0,
         Description |-> IF Has(m, "description") THEN UnmarshalString(m["description"]) ELSE "",
         Group       |-> IF Has(m, "group") THEN UnmarshalString(m["group"]) ELSE ""]

\* provider.OrderGroup
MarshalOrderGroup(g) ==
    JObject(Member("name", JString(g.Name))
            @@ Member("description", JString(g.Description))
            @@ Member("priority", JNumber(g.Priority)))
UnmarshalOrderGroup(j) ==
    LET m == j.v[1]
    IN  [Name        |-> IF Has(m, "name") THEN UnmarshalString(m["name"]) ELSE "",
         Description |-> IF Has(m, "description") THEN UnmarshalString(m["description"]) ELSE "",
         Priority    |-> IF Has(m, "priority") THEN UnmarshalNumber(m["priority"]) ELSE 0]

\* encoding/json on the []OrderedFile and []OrderGroup fields.
MarshalOrderedFiles(s) ==
    IF s.null THEN JNull
    ELSE JArray([i \in 1..Len(s.elems) |-> MarshalOrderedFile(s.elems[i])])
UnmarshalOrderedFiles(j) ==
    IF j.t = "null" THEN NilSlice
    ELSE Slice([i \in 1..Len(j.v) |-> UnmarshalOrderedFile(j.v[i])])
MarshalOrderGroups(s) ==
    IF s.null THEN JNull
    ELSE JArray([i \in 1..Len(s.elems) |-> MarshalOrderGroup(s.elems[i])])
UnmarshalOrderGroups(j) ==
    IF j.t = "null" THEN NilSlice
    ELSE Slice([i \in 1..Len(j.v) |-> UnmarshalOrderGroup(j.v[i])])

\* provider.SummarizeResponse
ZeroSummary ==
    [Overview |-> "", KeyChanges |-> NilSlice, Concerns |-> NilSlice, FileGroups |-> NilSlice]
MarshalSummary(s) ==
    JObject(Member("overview", JString(s.Overview))
            @@ Member("key_changes", MarshalStrings(s.KeyChanges))
            @@ OmitEmpty("concerns", Len(s.Concerns.elems) = 0,
                         MarshalStrings(s.Concerns))
            @@ OmitEmpty("file_groups", Len(s.FileGroups.elems) = 0,
                         MarshalStrings(s.FileGroups)))
UnmarshalSummary(j) ==
    LET m == j.v[1]
    IN  [Overview   |-> IF Has(m, "overview") THEN UnmarshalString(m["overview"]) ELSE "",
         KeyChanges |-> IF Has(m, "key_changes") THEN UnmarshalStrings(m["key_changes"]) ELSE NilSlice,
         Concerns   |-> IF Has(m, "concerns") THEN UnmarshalStrings(m["concerns"]) ELSE NilSlice,
         FileGroups |-> IF Has(m, "file_groups") THEN UnmarshalStrings(m["file_groups"]) ELSE NilSlice]

\* provider.OrderResponse
ZeroOrdering == [Files |-> NilSlice, Groups |-> NilSlice, Reasoning |-> ""]
MarshalOrdering(o) ==
    JObject(Member("files", MarshalOrderedFiles(o.Files))
            @@ OmitEmpty("groups", Len(o.Groups.elems) = 0,
                         MarshalOrderGroups(o.Groups))
            @@ Member("reasoning", JString(o.Reasoning)))
UnmarshalOrdering(j) ==
    LET m == j.v[1]
    IN  [Files     |-> IF Has(m, "files") THEN UnmarshalOrderedFiles(m["files"]) ELSE NilSlice,
         Groups    |-> IF Has(m, "groups") THEN UnmarshalOrderGroups(m["groups"]) ELSE NilSlice,
         Reasoning |-> IF Has(m, "reasoning") THEN UnmarshalString(m["reasoning"]) ELSE ""]

\* provider.ReviewResponse
ZeroReviewResponse == [Content |-> ""]
MarshalReviewResponse(r) == JObject(Member("content", JString(r.Content)))
UnmarshalReviewResponse(j) ==
    [Content |-> IF Has(j.v[1], "content") THEN UnmarshalString(j.v[1]["content"]) ELSE ""]

\* The Review part of CachedReview: an optional pointer like Summary and
\* Ordering, stored under "review" and left out when nil.
ReviewMember(r) ==
    OmitEmpty("review", ~r.Review.has, MarshalReviewResponse(r.Review.val))
ReviewField(m) ==
    IF Has(m, "review") THEN Ptr(UnmarshalReviewResponse(m["review"]))
    ELSE Nil(ZeroReviewResponse)

\* provider.CachedReview
ZeroCachedReview ==
    [CacheKey     |-> "",
     BaseRef      |-> "",
     CommitHashes |-> NilSlice,
     Summary      |-> Nil(ZeroSummary),
     Ordering     |-> Nil(ZeroOrdering),
     Review       |-> Nil(ZeroReviewResponse),
     CachedAt     |-> ZeroTime]

\* Variant: the timestamp is stored by its date only (here: as instant 0).
MarshalCachedReview_DateOnly(r) ==
    Member("cache_key", JString(r.CacheKey))
    @@ Member("base_ref", JString(r.BaseRef))
    @@ Member("commit_hashes", MarshalStrings(r.CommitHashes))
    @@ OmitEmpty("summary", ~r.Summary.has, MarshalSummary(r.Summary.val))
    @@ OmitEmpty("ordering", ~r.Ordering.has, MarshalOrdering(r.Ordering.val))
    @@ ReviewMember(r)
    @@ Member("cached_at", MarshalTime(Time(0, FALSE)))

\* json.MarshalIndent(cached, "", "  "): the members of the document.
MarshalCachedReview(r) ==
    Member("cache_key", JString(r.CacheKey))
    @@ Member("base_ref", JString(r.BaseRef))
    @@ Member("commit_hashes", MarshalStrings(r.CommitHashes))
    @@ OmitEmpty("summary", ~r.Summary.has, MarshalSummary(r.Summary.val))
    @@ OmitEmpty("ordering", ~r.Ordering.has, MarshalOrdering(r.Ordering.val))
    @@ ReviewMember(r)
    @@ Member("cached_at", MarshalTime(r.CachedAt))

\* json.Unmarshal(data, &cached) into a zero CachedReview.
UnmarshalCachedReview(m) ==
    LET summaryPtr(j)  == Ptr(UnmarshalSummary(j))
        orderingPtr(j) == Ptr(UnmarshalOrdering(j))
    IN  [CacheKey     |-> IF Has(m, "cache_key") THEN UnmarshalString(m["cache_key"]) ELSE "",
         BaseRef      |-> IF Has(m, "base_ref") THEN UnmarshalString(m["base_ref"]) ELSE "",
         CommitHashes |-> IF Has(m, "commit_hashes") THEN UnmarshalStrings(m["commit_hashes"]) ELSE NilSlice,
         Summary      |-> IF Has(m, "summary") THEN summaryPtr(m["summary"]) ELSE Nil(ZeroSummary),
         Ordering     |-> IF Has(m, "ordering") THEN orderingPtr(m["ordering"]) ELSE Nil(ZeroOrdering),
         Review       |-> ReviewField(m),
         CachedAt     |-> IF Has(m, "cached_at") THEN UnmarshalTime(m["cached_at"]) ELSE ZeroTime]

(***************************************************************************)
(* provider.ReviewCache: the operations on the cache directory             *)
(***************************************************************************)
MaxClock == 2       \* the clock and the CachedAt instants range over 0..MaxClock

\* Cache keys; the file of key k is <cacheDir>/k.json.
StoreKeys == {"k1", "k2"}

\* The content of a cache file: a document written by Save, or bytes that do
\* not parse as JSON (a truncated or damaged file); a file whose permissions
\* were taken away can still be removed but neither read nor written.
JsonFile(doc) == [kind |-> "json",    doc |-> doc,       readable |-> TRUE]
GarbageFile   == [kind |-> "garbage", doc |-> NoMembers, readable |-> TRUE]

\* The result of Load: a record, nothing (nil, nil), or an error.
Found(rec) == [found |-> TRUE,  err |-> FALSE, rec |-> rec]
Absent     == [found |-> FALSE, err |-> FALSE, rec |-> ZeroCachedReview]
LoadError  == [found |-> FALSE, err |-> TRUE,  rec |-> ZeroCachedReview]

\* Variant: a file that cannot be read counts as a miss.
Load_ReadErrorIsMiss(files, dir, key) ==
    IF ~dir \/ key \notin DOMAIN files THEN Absent
    ELSE IF ~files[key].readable THEN Absent
    ELSE IF files[key].kind = "garbage" THEN Absent
    ELSE Found(UnmarshalCachedReview(files[key].doc))

\* ReviewCache.Load(cacheKey)
Load(files, dir, key) ==
    IF ~dir \/ key \notin DOMAIN files THEN Absent          \* os.IsNotExist
    ELSE IF ~files[key].readable THEN LoadError             \* other read error
    ELSE IF files[key].kind = "garbage" THEN Absent         \* Unmarshal error
    ELSE Found(UnmarshalCachedReview(files[key].doc))

\* The cache directory after an operation, and the operation's error.
StoreResult(files, dir, err) == [files |-> files, dir |-> dir, err |-> err]

WithFile(files, key, content) ==
    [k \in DOMAIN files \cup {key} |-> IF k = key THEN content ELSE files[k]]
WithoutFiles(files, keys) == [k \in DOMAIN files \ keys |-> files[k]]

\* Variant: an existing cache file is kept as it is.
Save_KeepExisting(files, dir, r) ==
    IF dir /\ r.CacheKey \in DOMAIN files
    THEN StoreResult(files, dir, FALSE)
    ELSE StoreResult(WithFile(files, r.CacheKey, JsonFile(MarshalCachedReview(r))),
                     TRUE, FALSE)

\* ReviewCache.Save(cached): MkdirAll, MarshalIndent, WriteFile.
Save(files, dir, r) ==
    IF dir /\ r.CacheKey \in DOMAIN files /\ ~files[r.CacheKey].readable
    THEN StoreResult(files, dir, TRUE)
    ELSE StoreResult(WithFile(files, r.CacheKey, JsonFile(MarshalCachedReview(r))),
                     TRUE, FALSE)

\* ReviewCache.Clear(cacheKey): a missing file is not an error.
Clear(files, dir, key) == StoreResult(WithoutFiles(files, {key}), dir, FALSE)

\* ReviewCache.ClearAll(): os.RemoveAll of the cache directory.
ClearAll(files, dir) == StoreResult(NoMembers, FALSE, FALSE)

\* ReviewCache.List(): the records of the files that Load returns a record
\* for, each with the key of its file name; other files are skipped.
List(files, dir) ==
    IF ~dir THEN {}
    ELSE {[file |-> k, rec |-> Load(files, dir, k).rec] :
             k \in {x \in DOMAIN files : Load(files, dir, x).found}}

\* review.CachedAt.Before(cutoff), on the wall-clock instants.
Before(tm, cutoff) == tm.wall < cutoff

\* The listed records that ClearStale clears at clock reading clock.
StaleEntries_IncludingCutoff(files, dir, clock, maxAge) ==
    {e \in List(files, dir) : e.rec.CachedAt.wall <= clock - maxAge}

StaleEntries(files, dir, clock, maxAge) ==
    {e \in List(files, dir) : Before(e.rec.CachedAt, clock - maxAge)}

\* ReviewCache.ClearStale(maxAge): Clear(review.CacheKey) for every stale
\* record of the list; the result also carries the count.
ClearStale(files, dir, clock, maxAge) ==
    LET stale == StaleEntries(files, dir, clock, maxAge)
    IN  [files |-> WithoutFiles(files, {e.rec.CacheKey : e \in stale}),
         dir   |-> dir,
         err   |-> FALSE,
         count |-> Cardinality(stale)]

(***************************************************************************)
(* cli.buildGroupedFileList                                                *)
(***************************************************************************)
\* Group names an ordering response declares.  "" is OrderedFile's marker for
\* "no group" (json omitempty), so a declared group has a non-empty name.
GroupNames == {"A", "B"}
\* OrderGroup.Priority as proposed by the provider.
GroupPriority(n) == IF n = "A" THEN 1 ELSE 2
OrderGroups == {[Name |-> n, Priority |-> GroupPriority(n)] : n \in GroupNames}
\* Group tags a file can carry: none, a declared group, or a name ("X") that
\* no OrderGroup declares.
FileGroups == {""} \cup GroupNames \cup {"X"}

\* The file lists: paths are unique, the k-th file has path k.
FileLists ==
    UNION {{[i \in 1..k |-> [Path |-> i, Priority |-> pr[i], Group |-> gr[i]]] :
               pr \in [1..k -> 1..MaxPrio], gr \in [1..k -> FileGroups]} :
           k \in 0..MaxFiles}

\* groupOrder[g.Name] = i for each selected group; a later entry overwrites.
GroupOrder(sel) ==
    [n \in {sel[i].Name : i \in 1..Len(sel)} |->
        (CHOOSE i \in 1..Len(sel) :
            /\ sel[i].Name = n
            /\ \A j \in 1..Len(sel) : sel[j].Name = n => j <= i) - 1]

\* selectedSet[g.Name] = true
SelectedSet(sel) == {sel[i].Name : i \in 1..Len(sel)}

KeepFile_NoFilter(f, sel) == TRUE

\* the filter condition: f.Group == "" || selectedSet[f.Group]
KeepFile(f, sel) == f.Group = "" \/ f.Group \in SelectedSet(sel)

RECURSIVE FilterFiles(_, _)
FilterFiles(files, sel) ==
    IF files = <<>> THEN <<>>
    ELSE IF KeepFile(Last(files), sel)
         THEN Append(FilterFiles(Front(files), sel), Last(files))
         ELSE FilterFiles(Front(files), sel)

\* The less function given to sort.SliceStable, by the group's own Priority.
GroupedLess_ByGroupPriority(order, fi, fj) ==
    LET goki == fi.Group \in DOMAIN order
        gokj == fj.Group \in DOMAIN order
        gi   == IF goki THEN GroupPriority(fi.Group) ELSE 0
        gj   == IF gokj THEN GroupPriority(fj.Group) ELSE 0
    IN  IF ~goki /\ gokj THEN FALSE
        ELSE IF goki /\ ~gokj THEN TRUE
        ELSE IF gi # gj THEN gi < gj
        ELSE fi.Priority < fj.Priority

\* The less function given to sort.SliceStable.
GroupedLess(order, fi, fj) ==
    LET goki == fi.Group \in DOMAIN order
        gokj == fj.Group \in DOMAIN order
        gi   == IF goki THEN order[fi.Group] ELSE 0
        gj   == IF gokj THEN order[fj.Group] ELSE 0
    IN  IF ~goki /\ gokj THEN FALSE
        ELSE IF goki /\ ~gokj THEN TRUE
        ELSE IF gi # gj THEN gi < gj
        ELSE fi.Priority < fj.Priority

\* One insertion step of sort.SliceStable (insertion sort below 20 elements):
\* x is swapped left while less(x, predecessor).
RECURSIVE InsertGrouped(_, _, _)
InsertGrouped(order, s, x) ==
    IF s = <<>> THEN <<x>>
    ELSE IF GroupedLess(order, x, Last(s))
         THEN Append(InsertGrouped(order, Front(s), x), Last(s))
         ELSE Append(s, x)

RECURSIVE SliceStable(_, _)
SliceStable(order, s) ==
    IF s = <<>> THEN <<>>
    ELSE InsertGrouped(order, SliceStable(order, Front(s)), Last(s))

\* Variant: a sort that leaves files of equal rank in reverse input order.
buildGroupedFileList_Unstable(files, sel) ==
    SliceStable(GroupOrder(sel), Reverse(FilterFiles(files, sel)))

buildGroupedFileList(files, sel) ==
    SliceStable(GroupOrder(sel), FilterFiles(files, sel))

(***************************************************************************)
(* cli.buildFileList and the static path categorizer                       *)
(***************************************************************************)
\* File paths are identified by their number in this table; the table gives
\* the text of each path, one character per element.
PathTable ==
    << <<"c", "m", "d", "/", "m", "a", "i", "n", ".", "g", "o">>,
       <<"i", "n", "t", "e", "r", "n", "a", "l", "/", "s", "e", "r", "v", "i", "c", "e", ".", "g", "o">>,
       <<"s", "e", "r", "v", "i", "c", "e", "_", "t", "e", "s", "t", ".", "g", "o">>,
       <<"r", "e", "p", "o", "s", "i", "t", "o", "r", "y", "/", "u", "s", "e", "r", ".", "g", "o">>,
       <<"t", "y", "p", "e", "s", "/", "c", "o", "m", "m", "o", "n", ".", "g", "o">>,
       <<"s", "e", "t", "t", "i", "n", "g", "s", ".", "y", "a", "m", "l">>,
       <<"R", "E", "A", "D", "M", "E", ".", "m", "d">>,
       <<"r", "a", "n", "d", "o", "m", ".", "g", "o">> >>

PathIds == 1..Len(PathTable)
PathChars(p) == PathTable[p]

\* strings.Contains(s, substr)
Contains(s, substr) ==
    \E i \in 0..(Len(s) - Len(substr)) : SubSeq(s, i + 1, i + Len(substr)) = substr

\* containsAny(s, substrs...)
containsAny(s, substrs) == \E substr \in substrs : Contains(s, substr)

\* categorizeFile(path): the first matching case of the switch; the marks are
\* the substrings of each case.
categorizeFile(p) ==
    LET path == PathChars(p)
        TestMarks ==
            {<<"_", "t", "e", "s", "t", ".", "g", "o">>, <<"_", "t", "e", "s", "t", ".">>, <<"t", "e", "s", "t", "_">>}
        EntryPointMarks ==
            {<<"c", "m", "d", "/">>, <<"m", "a", "i", "n", ".", "g", "o">>}
        BusinessLogicMarks ==
            {<<"i", "n", "t", "e", "r", "n", "a", "l", "/">>, <<"p", "k", "g", "/">>}
        AdapterMarks ==
            {<<"a", "d", "a", "p", "t", "e", "r">>, <<"r", "e", "p", "o", "s", "i", "t", "o", "r", "y">>, <<"c", "l", "i", "e", "n", "t">>}
        ModelMarks ==
            {<<"m", "o", "d", "e", "l">>, <<"e", "n", "t", "i", "t", "y">>, <<"t", "y", "p", "e", "s">>}
        ConfigMarks ==
            {<<"c", "o", "n", "f", "i", "g">>, <<".", "j", "s", "o", "n">>, <<".", "y", "a", "m", "l">>, <<".", "t", "o", "m", "l">>}
        DocsMarks ==
            {<<".", "m", "d">>, <<"d", "o", "c", "/">>, <<"d", "o", "c", "s", "/">>}
    IN  IF containsAny(path, TestMarks) THEN "test"
        ELSE IF containsAny(path, EntryPointMarks) THEN "entry_point"
        ELSE IF containsAny(path, BusinessLogicMarks) THEN "business_logic"
        ELSE IF containsAny(path, AdapterMarks) THEN "adapter"
        ELSE IF containsAny(path, ModelMarks) THEN "model"
        ELSE IF containsAny(path, ConfigMarks) THEN "config"
        ELSE IF containsAny(path, DocsMarks) THEN "docs"
        ELSE "other"

\* git.FileDiff.Status values; "" stands for any other status text.
Statuses == {"added", "modified", "deleted", "renamed", ""}

\* describeStatus(status)
describeStatus(status) ==
    CASE status = "added"   -> "New file"
      [] status = "deleted" -> "Deleted"
      [] status = "renamed" -> "Renamed"
      [] OTHER              -> "Modified"

(***************************************************************************)
(* git.parseNumstat, git.parseNameStatus and git.extractNewPath            *)
(* The texts are sequences of lines, a line is the sequence of its         *)
(* tab-separated fields, a field is a sequence of characters.              *)
(***************************************************************************)
MaxNumstatLines == 2      \* most lines of a numstat output
MaxNameStatusLines == 2   \* most lines of a name-status output

\* Lines of `git diff --numstat`: counts and a path, a plain rename, renames
\* in brace form, a binary file, a line of two fields, a non-numeric count.
NumstatLines ==
    {<<<<"1", "0">>, <<"5">>, <<"a", ".", "g", "o">>>>,
     <<<<"0">>, <<"0">>, <<"o", "l", "d", ".", "g", "o", " ", "=", ">", " ", "n", "e", "w", ".", "g", "o">>>>,
     <<<<"2">>, <<"1">>, <<"d", "/", "{", "x", " ", "=", ">", " ", "y", "}", "/", "f">>>>,
     <<<<"-">>, <<"-">>, <<"i", "m", "g", ".", "p", "n", "g">>>>,
     <<<<"3">>, <<"1">>, <<"d", "/", "{", "x", " ", "=", ">", " ", "}", "/", "f">>>>,
     <<<<"7">>, <<"b", ".", "g", "o">>>>,
     <<<<"x">>, <<"2">>, <<"b", ".", "g", "o">>>>}

\* Lines of `git diff --name-status`: the status codes of git, a rename
\* without its pair, a code that is none of A, M, D, R*, C*, a lone field.
NameStatusLines ==
    {<<<<"M">>, <<"a", ".", "g", "o">>>>,
     <<<<"R", "1", "0", "0">>, <<"o", "l", "d", ".", "g", "o">>, <<"n", "e", "w", ".", "g", "o">>>>,
     <<<<"R", "1", "0", "0">>, <<"d", "/", "x", "/", "f">>, <<"d", "/", "y", "/", "f">>>>,
     <<<<"A">>, <<"i", "m", "g", ".", "p", "n", "g">>>>,
     <<<<"D">>, <<"b", ".", "g", "o">>>>,
     <<<<"C", "7", "5">>, <<"a", ".", "g", "o">>, <<"c", ".", "g", "o">>>>,
     <<<<"R", "0", "9", "0">>, <<"n", "e", "w", ".", "g", "o">>>>,
     <<<<"T">>, <<"b", ".", "g", "o">>>>,
     <<<<"M">>>>,
     <<<<"R", "1", "0", "0">>, <<"d", "/", "x", "/", "f">>, <<"d", "/", "f">>>>}

\* Variant: a text that is not a number is read as 1.
Atoi_ErrorIsOne(s) ==
    LET Digits == <<"0", "1", "2", "3", "4", "5", "6", "7", "8", "9">>
        digit(c) == CHOOSE d \in 0..9 : Digits[d + 1] = c
        val[i \in 0..Len(s)] == IF i = 0 THEN 0 ELSE 10 * val[i - 1] + digit(s[i])
    IN  IF Len(s) > 0 /\ \A i \in 1..Len(s) : \E d \in 1..10 : Digits[d] = s[i]
        THEN val[Len(s)]
        ELSE 1

\* strconv.Atoi with its error dropped: the decimal value of a digit string,
\* and 0 for every text that is not one (signs do not occur in the lines).
Atoi(s) ==
    LET Digits == <<"0", "1", "2", "3", "4", "5", "6", "7", "8", "9">>
        digit(c) == CHOOSE d \in 0..9 : Digits[d + 1] = c
        val[i \in 0..Len(s)] == IF i = 0 THEN 0 ELSE 10 * val[i - 1] + digit(s[i])
    IN  IF Len(s) > 0 /\ \A i \in 1..Len(s) : \E d \in 1..10 : Digits[d] = s[i]
        THEN val[Len(s)]
        ELSE 0

\* strings.HasPrefix
HasPrefix(s, prefix) ==
    Len(s) >= Len(prefix) /\ SubSeq(s, 1, Len(prefix)) = prefix

\* extractNewPath: the brace form by the regular expression
\* (.*)\{[^}]* => ([^}]*)\}(.*) with its greedy groups, else the text after
\* the first " => ".
extractNewPath(path) ==
    LET arrow == <<" ", "=", ">", " ">>
        close(i) == CHOOSE k \in (i + 1)..Len(path) :
                        path[k] = "}" /\ \A j \in (i + 1)..(k - 1) : path[j] # "}"
        opens == {i \in 1..Len(path) :
                     /\ path[i] = "{"
                     /\ \E k \in (i + 1)..Len(path) : path[k] = "}"
                     /\ Contains(SubSeq(path, i + 1, close(i) - 1), arrow)}
        open  == CHOOSE i \in opens : \A j \in opens : j <= i
        inner == SubSeq(path, open + 1, close(open) - 1)
        arrows(t) == {a \in 1..(Len(t) - 3) : SubSeq(t, a, a + 3) = arrow}
        last(t)  == CHOOSE a \in arrows(t) : \A b \in arrows(t) : b <= a
        first(t) == CHOOSE a \in arrows(t) : \A b \in arrows(t) : a <= b
    IN  IF opens # {}
        THEN SubSeq(path, 1, open - 1)
             \o SubSeq(inner, last(inner) + 4, Len(inner))
             \o SubSeq(path, close(open) + 1, Len(path))
        ELSE IF Contains(path, arrow)
        THEN SubSeq(path, first(path) + 4, Len(path))
        ELSE path

\* parseNumstat: canonical path -> <<additions, deletions>>; a later line
\* for the same path replaces an earlier one.
RECURSIVE parseNumstat(_)
parseNumstat(lines) ==
    IF lines = <<>> THEN [p \in {} |-> <<0, 0>>]
    ELSE LET prev   == parseNumstat(Front(lines))
             parts  == Last(lines)
             path   == IF Contains(parts[3], <<" ", "=", ">", " ">>)
                       THEN extractNewPath(parts[3]) ELSE parts[3]
         IN  IF Len(parts) < 3 THEN prev
             ELSE (path :> <<Atoi(parts[1]), Atoi(parts[2])>>) @@ prev

\* Variant: a copy is reported like a rename, with its source as OldPath.
FileOf_CopyAsRename(parts, numstat) ==
    LET statusCode == parts[1]
        renamed == HasPrefix(statusCode, <<"R">>) \/ HasPrefix(statusCode, <<"C">>)
        status == CASE statusCode = <<"A">> -> "added"
                    [] statusCode = <<"M">> -> "modified"
                    [] statusCode = <<"D">> -> "deleted"
                    [] renamed -> "renamed"
                    [] OTHER -> "modified"
        exact  == statusCode \in {<<"A">>, <<"M">>, <<"D">>}
        path   == IF ~exact /\ renamed /\ Len(parts) >= 3 THEN parts[3] ELSE parts[2]
        oldPath == IF ~exact /\ renamed /\ Len(parts) >= 3 THEN parts[2] ELSE <<>>
        ok     == path \in DOMAIN numstat
        counts == IF ok THEN numstat[path] ELSE <<0, 0>>
    IN  [Path |-> path, OldPath |-> oldPath, Status |-> status,
         Additions |-> counts[1], Deletions |-> counts[2],
         IsBinary |-> ok /\ counts[1] = 0 /\ counts[2] = 0 /\ status # "deleted"]

\* One pass of the loop of parseNameStatus over a line of at least two
\* fields: the FileDiff appended for it.
FileOf(parts, numstat) ==
    LET statusCode == parts[1]
        renamed == HasPrefix(statusCode, <<"R">>)
        copied  == HasPrefix(statusCode, <<"C">>)
        status == CASE statusCode = <<"A">> -> "added"
                    [] statusCode = <<"M">> -> "modified"
                    [] statusCode = <<"D">> -> "deleted"
                    [] renamed -> "renamed"
                    [] copied -> "added"
                    [] OTHER -> "modified"
        exact  == statusCode \in {<<"A">>, <<"M">>, <<"D">>}
        path   == IF ~exact /\ (renamed \/ copied) /\ Len(parts) >= 3
                  THEN parts[3] ELSE parts[2]
        oldPath == IF ~exact /\ renamed /\ Len(parts) >= 3 THEN parts[2] ELSE <<>>
        ok     == path \in DOMAIN numstat
        counts == IF ok THEN numstat[path] ELSE <<0, 0>>
    IN  [Path |-> path, OldPath |-> oldPath, Status |-> status,
         Additions |-> counts[1], Deletions |-> counts[2],
         IsBinary |-> ok /\ counts[1] = 0 /\ counts[2] = 0 /\ status # "deleted"]

ZeroStats == [FilesChanged |-> 0, Additions |-> 0, Deletions |-> 0]

\* Variant: a renamed file is not counted in the stats.
AddStats_RenamesUncounted(st, file) ==
    IF file.Status = "renamed" THEN st
    ELSE [FilesChanged |-> st.FilesChanged + 1,
          Additions |-> st.Additions + file.Additions,
          Deletions |-> st.Deletions + file.Deletions]

\* stats.FilesChanged++; stats.Additions += ...; stats.Deletions += ...
AddStats(st, file) ==
    [FilesChanged |-> st.FilesChanged + 1,
     Additions |-> st.Additions + file.Additions,
     Deletions |-> st.Deletions + file.Deletions]

\* parseNameStatus: the files and the stats; a line of fewer than two fields
\* is passed over.
RECURSIVE parseNameStatus(_, _)
parseNameStatus(lines, numstat) ==
    IF lines = <<>> THEN [files |-> <<>>, stats |-> ZeroStats]
    ELSE LET prev  == parseNameStatus(Front(lines), numstat)
             parts == Last(lines)
             file  == FileOf(parts, numstat)
         IN  IF Len(parts) < 2 THEN prev
             ELSE [files |-> Append(prev.files, file),
                   stats |-> AddStats(prev.stats, file)]

(***************************************************************************)
(* analysis.Cache and analysis.GetOrAnalyze                                *)
(***************************************************************************)
MaxRuns == 2   \* most analyses that Analyzer.Analyze completes

\* The file .graft/analysis.json; data numbers the analysis stored in it.
NoAnalysisFile == [exists |-> FALSE, readable |-> TRUE, parses |-> FALSE, data |-> 0]

\* Variant: a file that cannot be read counts as a missing cache.
CacheLoad_ReadErrorIsMiss(file) ==
    IF ~file.exists \/ ~file.readable \/ ~file.parses THEN [analysis |-> 0, err |-> FALSE]
    ELSE [analysis |-> file.data, err |-> FALSE]

\* Cache.Load: analysis 0 stands for nil.
CacheLoad(file) ==
    IF ~file.exists THEN [analysis |-> 0, err |-> FALSE]
    ELSE IF ~file.readable THEN [analysis |-> 0, err |-> TRUE]
    ELSE IF ~file.parses THEN [analysis |-> 0, err |-> FALSE]
    ELSE [analysis |-> file.data, err |-> FALSE]

\* Cache.Save; how tells whether MkdirAll and WriteFile succeed ("ok"), fail
\* before the file is opened ("failed"), or fail after WriteFile has
\* truncated the file ("truncated").  WriteFile keeps the permissions of a
\* file that exists.
CacheSave(file, analysis, how) ==
    CASE how = "failed" -> [file |-> file, err |-> TRUE]
      [] how = "truncated" ->
            [file |-> [exists |-> TRUE, readable |-> file.exists => file.readable,
                       parses |-> FALSE, data |-> 0],
             err |-> TRUE]
      [] how = "ok" ->
            [file |-> [exists |-> TRUE, readable |-> file.exists => file.readable,
                       parses |-> TRUE, data |-> analysis],
             err |-> FALSE]

(***************************************************************************)
(* cli.runReview: the orchestrator                                         *)
(***************************************************************************)
MaxDiffFiles == 2   \* longest list of changed files in the DiffResult

\* diffResult.Files: the k-th changed file has path k (diff-extraction order).
DiffLists == {[i \in 1..k |-> [Path |-> i, Status |-> "modified"]] : k \in 0..MaxDiffFiles}

\* An event printed or rendered by the main flow.
Ev(e)        == [ev |-> e, path |-> 0]
FileEv(e, p) == [ev |-> e, path |-> p]
Printed(e)   == \E i \in 1..Len(output) : output[i].ev = e

\* provider.OrderResponse values and the orderResult sent over orderCh.
EmptyResponse == [Files |-> <<>>, Groups |-> <<>>]
ZeroResult    == [files |-> EmptyResponse, hasFiles |-> FALSE, err |-> FALSE]
ErrResult     == [files |-> EmptyResponse, hasFiles |-> FALSE, err |-> TRUE]
OkResult(r)   == [files |-> r, hasFiles |-> TRUE, err |-> FALSE]

\* The responses an OrderFiles call can return for the changed files; the
\* response is the model's JSON, taken as it parses: no files at all, the
\* files in reverse order without groups, the files in reverse order with the
\* declared groups B, A and any group tag on each file, a response that
\* names only a path that is not among the changed files (path k+1), and one
\* that names the first changed file twice and no other.
AIResponses(files) ==
    LET k   == Len(files)
        rev == Reverse(files)
    IN  {EmptyResponse}
        \cup {[Files  |-> [i \in 1..k |-> [Path |-> rev[i].Path, Priority |-> i, Group |-> ""]],
               Groups |-> <<>>]}
        \cup {[Files  |-> [i \in 1..k |-> [Path |-> rev[i].Path, Priority |-> i, Group |-> tag[i]]],
               Groups |-> <<[Name |-> "B", Priority |-> 2], [Name |-> "A", Priority |-> 1]>>] :
                  tag \in [1..k -> FileGroups]}
        \cup {[Files  |-> <<[Path |-> k + 1, Priority |-> 1, Group |-> ""]>>, Groups |-> <<>>]}
        \cup {[Files  |-> [i \in 1..2 |-> [Path |-> files[1].Path, Priority |-> i, Group |-> ""]],
               Groups |-> <<>>] : j \in 1..(IF k > 0 THEN 1 ELSE 0)}

\* What the user can type at the continue prompt (after TrimSpace and ToLower),
\* or a read error on stdin.
PromptInputs == {"", "y", "yes", "n", "readErr"}

\* prompt.ConfirmContinue
ConfirmContinue(interactive, input) ==
    IF ~interactive THEN TRUE
    ELSE IF input = "readErr" THEN TRUE
    ELSE input \in {"", "y", "yes"}

\* Variant: an empty selection is returned as it is.
SelectGroups_NoDefault(groups, interactive, formErr, chosen) ==
    IF Len(groups) = 0 THEN [err |-> TRUE, groups |-> <<>>]
    ELSE IF ~interactive THEN [err |-> FALSE, groups |-> groups]
    ELSE IF formErr THEN [err |-> TRUE, groups |-> <<>>]
    ELSE [err |-> FALSE, groups |-> SelectSeq(groups, LAMBDA g : g.Name \in chosen)]

\* prompt.SelectGroups; chosen is the set of names ticked in the form.
SelectGroups(groups, interactive, formErr, chosen) ==
    IF Len(groups) = 0 THEN [err |-> TRUE, groups |-> <<>>]
    ELSE IF ~interactive THEN [err |-> FALSE, groups |-> groups]
    ELSE IF formErr THEN [err |-> TRUE, groups |-> <<>>]
    ELSE IF chosen = {} THEN [err |-> FALSE, groups |-> groups]
    ELSE [err |-> FALSE, groups |-> SelectSeq(groups, LAMBDA g : g.Name \in chosen)]

\* The OrderedFile that buildFileList makes of the i-th diff file.
FallbackFile(f, i) ==
    [Path        |-> f.Path,
     Category    |-> categorizeFile(f.Path),
     Priority    |-> i,
     Description |-> describeStatus(f.Status),
     Group       |-> ""]

\* Variant: a response is used whenever there is one, even without files.
buildFileList_NoLenCheck(files, hasOrder, aiOrder) ==
    IF hasOrder THEN aiOrder.Files
    ELSE [i \in 1..Len(files) |-> FallbackFile(files[i], i)]

\* cli.buildFileList
buildFileList(files, hasOrder, aiOrder) ==
    IF hasOrder /\ Len(aiOrder.Files) > 0 THEN aiOrder.Files
    ELSE [i \in 1..Len(files) |-> FallbackFile(files[i], i)]

\* The result of the three summary/ordering/header renderers: both renderers
\* (fallback and delta, which delegates) return nil on every input.
RenderFails == FALSE

\* The order in which runReview goes through dispatch, summary and gate.
PcAfter_SummaryFirst(p) ==
    CASE p = "fullDiff"  -> "summarize"
      [] p = "summarize" -> "dispatch"
      [] p = "dispatch"  -> "gate"
      [] p = "gate"      -> "join"

PcAfter(p) ==
    CASE p = "fullDiff"  -> "dispatch"
      [] p = "dispatch"  -> "summarize"
      [] p = "summarize" -> "gate"
      [] p = "gate"      -> "join"

Goto(p) ==
    /\ pc' = p
    /\ visited' = visited \cup {p}

\* ProxyManager.Stop makes a goroutine that waits for the proxy process and
\* goes on when it is told the process has exited or after three seconds:
\* the goroutine has exited by then, or is still running.
StopOutcomes == {"exited", "running"}

\* Variant: the proxy is stopped at every return, started by this run or not.
Return_StopAlways(r) ==
    /\ pc' = "cleanup"
    /\ visited' = visited \cup {"cleanup"}
    /\ ret' = r

\* A return statement of runReview: the deferred cleanup, if any, runs before
\* the function is left.
Return(r) ==
    /\ pc' = IF cleanup THEN "cleanup" ELSE "done"
    /\ visited' = visited \cup {IF cleanup THEN "cleanup" ELSE "done"}
    /\ ret' = r

\* if aiProvider != nil && !skipOrdering
OrderingRequested == aiProvider /\ ~skipOrdering
\* if aiProvider != nil && !skipSummary
SummaryRequested  == aiProvider /\ ~skipSummary

\* Receiving from orderCh blocks until a value is buffered.
CanReceive_NonBlocking(ch) == TRUE
CanReceive(ch) == Len(ch) > 0

\* Variant: orderCh is unbuffered, a send waits for the receiver.
CanSend_Unbuffered(ch) == Len(ch) < 1 /\ pc = "join"

\* Sending on orderCh (capacity 1) blocks while the buffer is full.
CanSend(ch) == Len(ch) < 1

\* if summary != nil
GateNeeded_Always == TRUE
GateNeeded == summary

\* Variant: a diff without changed files returns an error like the failures.
GetDiff_ZeroFilesError ==
    /\ pc = "start"
    /\ \E outcome \in {"ok", "notARepository", "invalidBranch", "diffError", "rootDirError"} :
          IF outcome \in {"notARepository", "invalidBranch", "diffError"}
          THEN Return("err") /\ UNCHANGED output
          ELSE IF diffFiles = <<>>
          THEN Return("err") /\ output' = Append(output, Ev("noChanges"))
          ELSE IF outcome = "rootDirError"
          THEN Return("err") /\ output' = Append(output, Ev("found"))
          ELSE Goto("initProvider") /\ ret' = ret /\ output' = Append(output, Ev("found"))
    /\ UNCHANGED <<skipSummary, skipOrdering, aiProvider, orderCh, chMade, bg, bgResult,
                   cancelled, summary, sumCall, result, hasOrdered, orderedFiles,
                   filesToReview, idx, chWrites, chReads, firstDone, bgAtSumStart, diffFiles,
                   cleanup, waiter,
                   keyVars, groupVars, listVars, storeVars, diffVars, moreVars>>

\* Lines 79-122: repository, base ref, diff and root directory.  Every failure
\* returns an error; a diff without changed files prints a note and returns nil.
GetDiff ==
    /\ pc = "start"
    /\ \E outcome \in {"ok", "notARepository", "invalidBranch", "diffError", "rootDirError"} :
          IF outcome \in {"notARepository", "invalidBranch", "diffError"}
          THEN Return("err") /\ UNCHANGED output
          ELSE IF diffFiles = <<>>
          THEN Return("nil") /\ output' = Append(output, Ev("noChanges"))
          ELSE IF outcome = "rootDirError"
          THEN Return("err") /\ output' = Append(output, Ev("found"))
          ELSE Goto("initProvider") /\ ret' = ret /\ output' = Append(output, Ev("found"))
    /\ UNCHANGED <<skipSummary, skipOrdering, aiProvider, orderCh, chMade, bg, bgResult,
                   cancelled, summary, sumCall, result, hasOrdered, orderedFiles,
                   filesToReview, idx, chWrites, chReads, firstDone, bgAtSumStart, diffFiles,
                   cleanup, waiter,
                   keyVars, groupVars, listVars, storeVars, diffVars, moreVars>>

\* Lines 143-159: initProvider; on failure both AI steps are skipped.  The
\* copilot provider starts the copilot-api proxy when it is not running: a
\* cleanup function is then returned, and when the proxy does not get ready
\* EnsureRunning stops it before initProvider returns its error.
InitProvider ==
    /\ pc = "initProvider"
    /\ IF ~skipSummary \/ ~skipOrdering
       THEN \E outcome \in {"ready", "readyProxyStarted", "failed", "proxyFailed"} :
               IF outcome \in {"ready", "readyProxyStarted"}
               THEN /\ aiProvider' = TRUE
                    /\ cleanup' = (outcome = "readyProxyStarted")
                    /\ UNCHANGED <<skipSummary, skipOrdering, output, waiter>>
               ELSE /\ aiProvider' = FALSE
                    /\ skipSummary' = TRUE
                    /\ skipOrdering' = TRUE
                    /\ output' = Append(output, Ev("warnProvider"))
                    /\ cleanup' = FALSE
                    /\ IF outcome = "proxyFailed"
                       THEN waiter' \in StopOutcomes
                       ELSE UNCHANGED waiter
       ELSE UNCHANGED <<aiProvider, skipSummary, skipOrdering, output, cleanup, waiter>>
    /\ Goto("fullDiff")
    /\ UNCHANGED <<ret, orderCh, chMade, bg, bgResult, cancelled, summary, sumCall,
                   result, hasOrdered, orderedFiles, filesToReview, idx, chWrites,
                   chReads, firstDone, bgAtSumStart, diffFiles,
                   keyVars, groupVars, listVars, storeVars, diffVars, moreVars>>

\* Lines 161-169: the full diff text, needed for the summary only.
GetFullDiff ==
    /\ pc = "fullDiff"
    /\ IF SummaryRequested
       THEN \E ok \in BOOLEAN :
               IF ok THEN Goto(PcAfter("fullDiff")) /\ ret' = ret ELSE Return("err")
       ELSE Goto(PcAfter("fullDiff")) /\ ret' = ret
    /\ UNCHANGED <<skipSummary, skipOrdering, aiProvider, output, orderCh, chMade, bg,
                   bgResult, cancelled, summary, sumCall, result, hasOrdered,
                   orderedFiles, filesToReview, idx, chWrites, chReads, firstDone, bgAtSumStart,
                   diffFiles, cleanup, waiter,
                   keyVars, groupVars, listVars, storeVars, diffVars, moreVars>>

DispatchOrdering_AlwaysSend ==
    /\ pc = "dispatch"
    /\ chMade' = TRUE
    /\ IF OrderingRequested
       THEN bg' = "spawned"
       ELSE bg' = bg
    /\ orderCh' = Append(orderCh, ZeroResult)
    /\ chWrites' = Append(chWrites, "main")
    /\ Goto(PcAfter("dispatch"))
    /\ UNCHANGED <<ret, skipSummary, skipOrdering, aiProvider, output, bgResult,
                   cancelled, summary, sumCall, result, hasOrdered, orderedFiles,
                   filesToReview, idx, chReads, firstDone, bgAtSumStart, diffFiles, cleanup, waiter,
                   keyVars, groupVars, listVars, storeVars, diffVars, moreVars>>

\* Lines 171-192: make orderCh (capacity 1); start the goroutine that makes the
\* ordering call, or send the zero orderResult at once when none is wanted.
DispatchOrdering ==
    /\ pc = "dispatch"
    /\ chMade' = TRUE
    /\ IF OrderingRequested
       THEN /\ bg' = "spawned"
            /\ UNCHANGED <<orderCh, chWrites>>
       ELSE /\ bg' = bg
            /\ orderCh' = Append(orderCh, ZeroResult)
            /\ chWrites' = Append(chWrites, "main")
    /\ Goto(PcAfter("dispatch"))
    /\ UNCHANGED <<ret, skipSummary, skipOrdering, aiProvider, output, bgResult,
                   cancelled, summary, sumCall, result, hasOrdered, orderedFiles,
                   filesToReview, idx, chReads, firstDone, bgAtSumStart, diffFiles, cleanup, waiter,
                   keyVars, groupVars, listVars, storeVars, diffVars, moreVars>>

\* Lines 194-205: the summarization call begins on the main flow, or is skipped.
SummarizeBegin ==
    /\ pc = "summarize"
    /\ IF SummaryRequested
       THEN /\ sumCall' = "running"
            /\ bgAtSumStart' = bg
            /\ output' = Append(output, Ev("analyzing"))
            /\ Goto("sumWait")
       ELSE /\ UNCHANGED <<sumCall, output, bgAtSumStart>>
            /\ Goto(PcAfter("summarize"))
    /\ UNCHANGED <<ret, skipSummary, skipOrdering, aiProvider, orderCh, chMade, bg,
                   bgResult, cancelled, summary, result, hasOrdered, orderedFiles,
                   filesToReview, idx, chWrites, chReads, firstDone, diffFiles,
                   cleanup, waiter,
                   keyVars, groupVars, listVars, storeVars, diffVars, moreVars>>

\* Lines 200-213: SummarizeChanges returns; an error is a warning, a summary is
\* rendered (a rendering error would be returned).
SummarizeReturn ==
    /\ pc = "sumWait"
    /\ \E ok \in BOOLEAN :
          IF ~ok
          THEN /\ sumCall' = "err"
               /\ summary' = FALSE
               /\ output' = Append(output, Ev("warnSummary"))
               /\ Goto(PcAfter("summarize")) /\ ret' = ret
          ELSE /\ sumCall' = "ok"
               /\ summary' = TRUE
               /\ IF RenderFails
                  THEN Return("err") /\ UNCHANGED output
                  ELSE /\ output' = Append(output, Ev("summary"))
                       /\ Goto(PcAfter("summarize")) /\ ret' = ret
    /\ firstDone' = IF firstDone = "none" THEN "summary" ELSE firstDone
    /\ UNCHANGED bgAtSumStart
    /\ UNCHANGED <<skipSummary, skipOrdering, aiProvider, orderCh, chMade, bg, bgResult,
                   cancelled, result, hasOrdered, orderedFiles, filesToReview, idx,
                   chWrites, chReads, diffFiles, cleanup, waiter,
                   keyVars, groupVars, listVars, storeVars, diffVars, moreVars>>

ContinueGate_NoReturn ==
    /\ pc = "gate"
    /\ IF GateNeeded
       THEN \E interactive \in BOOLEAN, input \in PromptInputs :
               IF ConfirmContinue(interactive, input)
               THEN output' = Append(output, Ev("gate"))
               ELSE output' = output \o <<Ev("gate"), Ev("reviewCancelled")>>
       ELSE UNCHANGED output
    /\ Goto(PcAfter("gate")) /\ ret' = ret
    /\ UNCHANGED <<skipSummary, skipOrdering, aiProvider, orderCh, chMade, bg, bgResult,
                   cancelled, summary, sumCall, result, hasOrdered, orderedFiles,
                   filesToReview, idx, chWrites, chReads, firstDone, bgAtSumStart, diffFiles,
                   cleanup, waiter,
                   keyVars, groupVars, listVars, storeVars, diffVars, moreVars>>

\* Lines 215-221: the continue prompt, only after a summary; declining prints
\* "Review cancelled." and returns nil.
ContinueGate ==
    /\ pc = "gate"
    /\ IF GateNeeded
       THEN \E interactive \in BOOLEAN, input \in PromptInputs :
               IF ConfirmContinue(interactive, input)
               THEN /\ output' = Append(output, Ev("gate"))
                    /\ Goto(PcAfter("gate")) /\ ret' = ret
               ELSE /\ output' = output \o <<Ev("gate"), Ev("reviewCancelled")>>
                    /\ Return("nil")
       ELSE /\ UNCHANGED output
            /\ Goto(PcAfter("gate")) /\ ret' = ret
    /\ UNCHANGED <<skipSummary, skipOrdering, aiProvider, orderCh, chMade, bg, bgResult,
                   cancelled, summary, sumCall, result, hasOrdered, orderedFiles,
                   filesToReview, idx, chWrites, chReads, firstDone, bgAtSumStart, diffFiles,
                   cleanup, waiter,
                   keyVars, groupVars, listVars, storeVars, diffVars, moreVars>>

JoinOrdering_AbortOnError ==
    /\ pc = "join"
    /\ CanReceive(orderCh)
    /\ LET r == IF Len(orderCh) > 0 THEN Head(orderCh) ELSE ZeroResult
       IN  /\ result' = r
           /\ orderCh' = IF Len(orderCh) > 0 THEN Tail(orderCh) ELSE orderCh
           /\ chReads' = chReads + 1
           /\ IF r.err
              THEN /\ output' = Append(output, Ev("warnOrder"))
                   /\ UNCHANGED <<hasOrdered, orderedFiles>>
                   /\ Return("err")
              ELSE IF r.hasFiles
              THEN /\ hasOrdered' = TRUE
                   /\ orderedFiles' = r.files
                   /\ output' = Append(output, Ev("ordering"))
                   /\ Goto("build") /\ ret' = ret
              ELSE /\ UNCHANGED <<hasOrdered, orderedFiles, output>>
                   /\ Goto("build") /\ ret' = ret
    /\ UNCHANGED <<skipSummary, skipOrdering, aiProvider, chMade, bg, bgResult,
                   cancelled, summary, sumCall, filesToReview, idx, chWrites,
                   firstDone, bgAtSumStart, diffFiles, cleanup, waiter,
                   keyVars, groupVars, listVars, storeVars, diffVars, moreVars>>

\* Lines 223-235: the join.  result := <-orderCh blocks until the value is
\* there; an error is a warning, a response is kept and rendered.
JoinOrdering ==
    /\ pc = "join"
    /\ CanReceive(orderCh)
    /\ LET r == IF Len(orderCh) > 0 THEN Head(orderCh) ELSE ZeroResult
       IN  /\ result' = r
           /\ orderCh' = IF Len(orderCh) > 0 THEN Tail(orderCh) ELSE orderCh
           /\ chReads' = chReads + 1
           /\ IF r.err
              THEN /\ output' = Append(output, Ev("warnOrder"))
                   /\ UNCHANGED <<hasOrdered, orderedFiles>>
                   /\ Goto("build") /\ ret' = ret
              ELSE IF r.hasFiles
              THEN /\ hasOrdered' = TRUE
                   /\ orderedFiles' = r.files
                   /\ IF RenderFails
                      THEN Return("err") /\ UNCHANGED output
                      ELSE /\ output' = Append(output, Ev("ordering"))
                           /\ Goto("build") /\ ret' = ret
              ELSE /\ UNCHANGED <<hasOrdered, orderedFiles, output>>
                   /\ Goto("build") /\ ret' = ret
    /\ UNCHANGED <<skipSummary, skipOrdering, aiProvider, chMade, bg, bgResult,
                   cancelled, summary, sumCall, filesToReview, idx, chWrites,
                   firstDone, bgAtSumStart, diffFiles, cleanup, waiter,
                   keyVars, groupVars, listVars, storeVars, diffVars, moreVars>>

\* Lines 237-251: the list of files to review, through the group selection when
\* the ordering declares groups.
BuildList ==
    /\ pc = "build"
    /\ IF hasOrdered /\ Len(orderedFiles.Groups) > 0
       THEN \E interactive \in BOOLEAN, formErr \in BOOLEAN,
               chosen \in SUBSET {orderedFiles.Groups[i].Name : i \in 1..Len(orderedFiles.Groups)} :
               LET sel == SelectGroups(orderedFiles.Groups, interactive, formErr, chosen)
               IN  IF sel.err
                   THEN /\ output' = output \o <<Ev("groupSelection"), Ev("warnGroups")>>
                        /\ filesToReview' = buildFileList(diffFiles, hasOrdered, orderedFiles)
                   ELSE /\ output' = Append(output, Ev("groupSelection"))
                        /\ filesToReview' = buildGroupedFileList(orderedFiles.Files, sel.groups)
       ELSE /\ UNCHANGED output
            /\ filesToReview' = buildFileList(diffFiles, hasOrdered, orderedFiles)
    /\ idx' = 1
    /\ Goto("display") /\ ret' = ret
    /\ UNCHANGED <<skipSummary, skipOrdering, aiProvider, orderCh, chMade, bg, bgResult,
                   cancelled, summary, sumCall, result, hasOrdered, orderedFiles,
                   chWrites, chReads, firstDone, bgAtSumStart, diffFiles, cleanup, waiter,
                   keyVars, groupVars, listVars, storeVars, diffVars, moreVars>>

\* Lines 253-263: one turn of the display loop: the header, then the diff (git
\* runs under ctx: it fails once ctx is cancelled; a failure is only a warning).
DisplayFile ==
    /\ pc = "display"
    /\ idx <= Len(filesToReview)
    /\ \E ok \in (IF cancelled THEN {FALSE} ELSE BOOLEAN) :
          output' = output \o
              <<FileEv("header", filesToReview[idx].Path),
                FileEv(IF ok THEN "diff" ELSE "warnDiff", filesToReview[idx].Path)>>
    /\ idx' = idx + 1
    /\ UNCHANGED <<pc, visited, ret, skipSummary, skipOrdering, aiProvider, orderCh,
                   chMade, bg, bgResult, cancelled, summary, sumCall, result,
                   hasOrdered, orderedFiles, filesToReview, chWrites, chReads,
                   firstDone, bgAtSumStart, diffFiles, cleanup, waiter,
                   keyVars, groupVars, listVars, storeVars, diffVars, moreVars>>

\* Lines 265-266: "Review complete!", return nil.
FinishReview ==
    /\ pc = "display"
    /\ idx > Len(filesToReview)
    /\ output' = Append(output, Ev("complete"))
    /\ Return("nil")
    /\ UNCHANGED <<skipSummary, skipOrdering, aiProvider, orderCh, chMade, bg, bgResult,
                   cancelled, summary, sumCall, result, hasOrdered, orderedFiles,
                   filesToReview, idx, chWrites, chReads, firstDone, bgAtSumStart, diffFiles,
                   cleanup, waiter,
                   keyVars, groupVars, listVars, storeVars, diffVars, moreVars>>

\* The deferred cleanup (lines 156-158, 313-316): p.Close() calls
\* ProxyManager.Stop, which signals the proxy and starts the goroutine that
\* waits for it.
StopProxy ==
    /\ pc = "cleanup"
    /\ output' = Append(output, Ev("stoppingProxy"))
    /\ waiter' = "running"
    /\ Goto("stopWait")
    /\ UNCHANGED <<ret, skipSummary, skipOrdering, aiProvider, orderCh, chMade, bg,
                   bgResult, cancelled, summary, sumCall, result, hasOrdered,
                   orderedFiles, filesToReview, idx, chWrites, chReads, firstDone,
                   bgAtSumStart, diffFiles, cleanup,
                   keyVars, groupVars, listVars, storeVars, diffVars, moreVars>>

\* Stop's select: the goroutine has reported the exit, or three seconds have
\* passed and the process is killed; runReview is left.
StopProxyDone ==
    /\ pc = "stopWait"
    /\ Goto("done")
    /\ UNCHANGED <<ret, skipSummary, skipOrdering, aiProvider, output, orderCh, chMade,
                   bg, bgResult, cancelled, summary, sumCall, result, hasOrdered,
                   orderedFiles, filesToReview, idx, chWrites, chReads, firstDone,
                   bgAtSumStart, diffFiles, cleanup, waiter,
                   keyVars, groupVars, listVars, storeVars, diffVars, moreVars>>

\* cmd.Wait() returns in Stop's goroutine, which sends on done and exits.
WaiterExit ==
    /\ waiter = "running"
    /\ waiter' = "exited"
    /\ UNCHANGED <<pc, visited, ret, skipSummary, skipOrdering, aiProvider, output,
                   orderCh, chMade, bg, bgResult, cancelled, summary, sumCall, result,
                   hasOrdered, orderedFiles, filesToReview, idx, chWrites, chReads,
                   firstDone, bgAtSumStart, diffFiles, cleanup,
                   keyVars, groupVars, listVars, storeVars, diffVars, moreVars>>

bgUnchanged ==
    UNCHANGED <<pc, visited, ret, skipSummary, skipOrdering, aiProvider, output,
                chMade, cancelled, summary, sumCall, result, hasOrdered, orderedFiles,
                filesToReview, idx, chReads, diffFiles, cleanup, waiter,
                   keyVars, groupVars, listVars, storeVars, diffVars, moreVars>>

\* Lines 179-186: the goroutine gets to run and calls aiProvider.OrderFiles.
OrderCallBegin ==
    /\ bg = "spawned"
    /\ bg' = "calling"
    /\ UNCHANGED <<bgResult, orderCh, chWrites, firstDone, bgAtSumStart>>
    /\ bgUnchanged

\* OrderFiles returns a response or an error.
OrderCallReturn ==
    /\ bg = "calling"
    /\ \E r \in {ErrResult} \cup {OkResult(x) : x \in AIResponses(diffFiles)} :
          bgResult' = r
    /\ bg' = "returned"
    /\ firstDone' = IF firstDone = "none" THEN "ordering" ELSE firstDone
    /\ UNCHANGED <<orderCh, chWrites, bgAtSumStart>>
    /\ bgUnchanged

\* Line 187: orderCh <- orderResult{files, err}
SendOrderResult ==
    /\ bg = "returned"
    /\ CanSend(orderCh)
    /\ orderCh' = Append(orderCh, bgResult)
    /\ chWrites' = Append(chWrites, "bg")
    /\ bg' = "exited"
    /\ UNCHANGED <<bgResult, firstDone, bgAtSumStart>>
    /\ bgUnchanged

\* cmd.Context() is cancelled (signal, timeout) while the review runs.
Cancel ==
    /\ pc \notin {"idle", "done"}
    /\ ~cancelled
    /\ cancelled' = TRUE
    /\ UNCHANGED <<pc, visited, ret, skipSummary, skipOrdering, aiProvider, output,
                   orderCh, chMade, bg, bgResult, summary, sumCall, result, hasOrdered,
                   orderedFiles, filesToReview, idx, chWrites, chReads, firstDone, bgAtSumStart,
                   diffFiles, cleanup, waiter,
                   keyVars, groupVars, listVars, storeVars, diffVars, moreVars>>

ReviewIdle ==
    /\ pc = "idle"
    /\ visited = {}
    /\ ret = "none"
    /\ skipSummary = FALSE
    /\ skipOrdering = FALSE
    /\ aiProvider = FALSE
    /\ output = <<>>
    /\ orderCh = <<>>
    /\ chMade = FALSE
    /\ bg = "none"
    /\ bgResult = ZeroResult
    /\ cancelled = FALSE
    /\ summary = FALSE
    /\ sumCall = "notcalled"
    /\ result = ZeroResult
    /\ hasOrdered = FALSE
    /\ orderedFiles = EmptyResponse
    /\ filesToReview = <<>>
    /\ idx = 0
    /\ chWrites = <<>>
    /\ chReads = 0
    /\ firstDone = "none"
    /\ bgAtSumStart = "unset"
    /\ diffFiles = <<>>
    /\ cleanup = FALSE
    /\ waiter = "none"

(***************************************************************************)
(* Specification SpecKey: GenerateCacheKey applied to bounded inputs       *)
(***************************************************************************)
NoKey == [sha256 |-> <<>>]

KeyIdle ==
    /\ baseRef = <<>>
    /\ commits = <<>>
    /\ cacheKey = NoKey
    /\ keyDone = FALSE

GroupIdle ==
    /\ gFiles = <<>>
    /\ gSelected = <<>>
    /\ gResult = <<>>
    /\ gDone = FALSE

(***************************************************************************)
(* Specification SpecStore: one process working on a cache directory       *)
(***************************************************************************)
\* What an operation was applied to and what it returned; again tells that
\* the operation before it was the same operation on the same arguments.
Op(op, key, rec, found, err, count, maxAge) ==
    [op |-> op, key |-> key, rec |-> rec, found |-> found, err |-> err,
     count |-> count, maxAge |-> maxAge,
     again |-> /\ lastOp.op = op
               /\ lastOp.key = key
               /\ lastOp.maxAge = maxAge
               /\ op = "Save" => lastOp.rec = rec]
NoOp ==
    [op |-> "none", key |-> "", rec |-> ZeroCachedReview, found |-> FALSE,
     err |-> FALSE, count |-> 0, maxAge |-> 0, again |-> FALSE]

\* The records saved here differ in their key and their CachedAt instant.
StoreReviews ==
    {[ZeroCachedReview EXCEPT !.CacheKey = k, !.BaseRef = "main",
                              !.CachedAt = Time(w, TRUE)] :
        k \in StoreKeys, w \in 0..MaxClock}

\* The maxAge arguments given to ClearStale, in clock units.
StaleAges == {0, 1}

NeverSaved == [k \in StoreKeys |-> Nil(ZeroCachedReview)]

StoreIdle ==
    /\ cacheDir = FALSE
    /\ cacheFiles = NoMembers
    /\ now = 0
    /\ lastOp = NoOp
    /\ lastSaved = NeverSaved
    /\ rtRecord = ZeroCachedReview
    /\ rtPc = "idle"

SelectIdle ==
    /\ selGroups = <<>>
    /\ selInteractive = FALSE
    /\ selFormErr = FALSE
    /\ selChosen = {}
    /\ selResult = [err |-> FALSE, groups |-> <<>>]
    /\ selDone = FALSE

\* No call of GetOrAnalyze yet.
NoCall ==
    [op |-> "none", force |-> FALSE, before |-> NoAnalysisFile, ran |-> FALSE,
     result |-> 0, isNew |-> FALSE, err |-> FALSE, warned |-> FALSE, prev |-> "none"]

AnalysisIdle ==
    /\ anFile = NoAnalysisFile
    /\ anRuns = 0
    /\ anLast = NoCall

Callers == {1, 2}   \* the goroutines that call one ProxyManager

Idle == [call |-> "none", at |-> "idle"]
NoReturn == [val |-> FALSE, err |-> FALSE]

ProxyIdle ==
    /\ cmd = 0
    /\ started = FALSE
    /\ procs = <<>>
    /\ tpc = [t \in Callers |-> Idle]
    /\ tcmd = [t \in Callers |-> 0]
    /\ tcalls = [t \in Callers |-> 0]
    /\ tlaunched = [t \in Callers |-> 0]
    /\ tret = [t \in Callers |-> NoReturn]

DiffIdle ==
    /\ numstatOutput = <<>>
    /\ nameStatusOutput = <<>>
    /\ numstatMap = <<>>
    /\ parsedFiles = <<>>
    /\ parsedStats = ZeroStats
    /\ diffDone = FALSE

ListIdle ==
    /\ lFiles = <<>>
    /\ lOrder = [has |-> FALSE, resp |-> EmptyResponse]
    /\ lResult = <<>>
    /\ lDone = FALSE

InitKey ==
    /\ baseRef \in BaseRefs
    /\ commits \in SeqsUpTo(Commits, MaxCommits)
    /\ cacheKey = NoKey
    /\ keyDone = FALSE
    /\ GroupIdle
    /\ ReviewIdle
    /\ ListIdle
    /\ StoreIdle
    /\ DiffIdle
    /\ SelectIdle
    /\ AnalysisIdle
    /\ ProxyIdle

ComputeKey ==
    /\ ~keyDone
    /\ cacheKey' = GenerateCacheKey(baseRef, commits)
    /\ keyDone' = TRUE
    /\ UNCHANGED <<baseRef, commits, groupVars, reviewVars, listVars, storeVars, diffVars, moreVars>>

NextKey == ComputeKey

SpecKey == InitKey /\ [][NextKey]_vars

(***************************************************************************)
(* Specification SpecGroup: buildGroupedFileList applied to bounded inputs *)
(***************************************************************************)
InitGroup ==
    /\ gFiles \in FileLists
    /\ gSelected \in SeqsUpTo(OrderGroups, MaxSel)
    /\ gResult = <<>>
    /\ gDone = FALSE
    /\ KeyIdle
    /\ ReviewIdle
    /\ ListIdle
    /\ StoreIdle
    /\ DiffIdle
    /\ SelectIdle
    /\ AnalysisIdle
    /\ ProxyIdle

BuildGrouped ==
    /\ ~gDone
    /\ gResult' = buildGroupedFileList(gFiles, gSelected)
    /\ gDone' = TRUE
    /\ UNCHANGED <<gFiles, gSelected, keyVars, reviewVars, listVars, storeVars, diffVars, moreVars>>

NextGroup == BuildGrouped

SpecGroup == InitGroup /\ [][NextGroup]_vars

(***************************************************************************)
(* Specification SpecList: buildFileList applied to bounded inputs         *)
(***************************************************************************)
\* The git.FileDiff values: any path of the table with any status.
FileDiffs == {[Path |-> p, Status |-> st] : p \in PathIds, st \in Statuses}

\* The aiOrder arguments: nil, a response without files, and a response that
\* lists the two first paths in reverse order.
ListOrders ==
    {[has |-> FALSE, resp |-> EmptyResponse],
     [has |-> TRUE,  resp |-> EmptyResponse],
     [has |-> TRUE,  resp |-> [Files  |-> <<[Path |-> 2, Priority |-> 1, Group |-> ""],
                                           [Path |-> 1, Priority |-> 2, Group |-> ""]>>,
                              Groups |-> <<>>]]}

InitList ==
    /\ lFiles \in SeqsUpTo(FileDiffs, MaxListFiles)
    /\ lOrder \in ListOrders
    /\ lResult = <<>>
    /\ lDone = FALSE
    /\ KeyIdle
    /\ GroupIdle
    /\ ReviewIdle
    /\ StoreIdle
    /\ DiffIdle
    /\ SelectIdle
    /\ AnalysisIdle
    /\ ProxyIdle

BuildFileList ==
    /\ ~lDone
    /\ lResult' = buildFileList(lFiles, lOrder.has, lOrder.resp)
    /\ lDone' = TRUE
    /\ UNCHANGED <<lFiles, lOrder, keyVars, groupVars, reviewVars, storeVars, diffVars, moreVars>>

NextList == BuildFileList

SpecList == InitList /\ [][NextList]_vars

InitStore ==
    /\ cacheDir = FALSE
    /\ cacheFiles = NoMembers
    /\ now = 0
    /\ lastOp = NoOp
    /\ lastSaved = NeverSaved
    /\ rtRecord = ZeroCachedReview
    /\ rtPc = "idle"
    /\ KeyIdle
    /\ GroupIdle
    /\ ReviewIdle
    /\ ListIdle
    /\ DiffIdle
    /\ SelectIdle
    /\ AnalysisIdle
    /\ ProxyIdle

storeRest == <<rtRecord, rtPc, keyVars, groupVars, reviewVars, listVars, diffVars, moreVars>>

DoSave ==
    \E r \in StoreReviews :
        LET res == Save(cacheFiles, cacheDir, r)
        IN  /\ cacheFiles' = res.files
            /\ cacheDir' = res.dir
            /\ lastOp' = Op("Save", r.CacheKey, r, FALSE, res.err, 0, 0)
            /\ lastSaved' = IF res.err THEN lastSaved
                            ELSE [lastSaved EXCEPT ![r.CacheKey] = Ptr(r)]
            /\ UNCHANGED <<now, storeRest>>

DoLoad ==
    \E k \in StoreKeys :
        LET res == Load(cacheFiles, cacheDir, k)
        IN  /\ lastOp' = Op("Load", k, res.rec, res.found, res.err, 0, 0)
            /\ UNCHANGED <<cacheFiles, cacheDir, lastSaved, now, storeRest>>

DoClear ==
    \E k \in StoreKeys :
        LET res == Clear(cacheFiles, cacheDir, k)
        IN  /\ cacheFiles' = res.files
            /\ cacheDir' = res.dir
            /\ lastOp' = Op("Clear", k, ZeroCachedReview, FALSE, res.err, 0, 0)
            /\ UNCHANGED <<lastSaved, now, storeRest>>

DoClearAll ==
    LET res == ClearAll(cacheFiles, cacheDir)
    IN  /\ cacheFiles' = res.files
        /\ cacheDir' = res.dir
        /\ lastOp' = Op("ClearAll", "", ZeroCachedReview, FALSE, res.err, 0, 0)
        /\ UNCHANGED <<lastSaved, now, storeRest>>

DoClearStale ==
    \E maxAge \in StaleAges :
        LET res == ClearStale(cacheFiles, cacheDir, now, maxAge)
        IN  /\ cacheFiles' = res.files
            /\ cacheDir' = res.dir
            /\ lastOp' = Op("ClearStale", "", ZeroCachedReview, FALSE, res.err,
                            res.count, maxAge)
            /\ UNCHANGED <<lastSaved, now, storeRest>>

\* Time passes.
Tick ==
    /\ now < MaxClock
    /\ now' = now + 1
    /\ lastOp' = Op("Tick", "", ZeroCachedReview, FALSE, FALSE, 0, 0)
    /\ UNCHANGED <<cacheFiles, cacheDir, lastSaved, storeRest>>

\* A cache file is damaged (cut short, overwritten with other bytes).
CorruptFile ==
    \E k \in DOMAIN cacheFiles :
        /\ cacheFiles[k].readable
        /\ cacheFiles[k].kind = "json"
        /\ cacheFiles' = [cacheFiles EXCEPT ![k] = GarbageFile]
        /\ lastOp' = Op("CorruptFile", k, ZeroCachedReview, FALSE, FALSE, 0, 0)
        /\ UNCHANGED <<cacheDir, lastSaved, now, storeRest>>

\* The permissions of a cache file are taken away.
RevokeAccess ==
    \E k \in DOMAIN cacheFiles :
        /\ cacheFiles[k].readable
        /\ cacheFiles[k].kind = "json"
        /\ cacheFiles' = [cacheFiles EXCEPT ![k].readable = FALSE]
        /\ lastOp' = Op("RevokeAccess", k, ZeroCachedReview, FALSE, FALSE, 0, 0)
        /\ UNCHANGED <<cacheDir, lastSaved, now, storeRest>>

NextStore ==
    \/ DoSave
    \/ DoLoad
    \/ DoClear
    \/ DoClearAll
    \/ DoClearStale
    \/ Tick
    \/ CorruptFile
    \/ RevokeAccess

SpecStore == InitStore /\ [][NextStore]_vars

(***************************************************************************)
(* Specification SpecDiff: getDiffFiles on the two outputs of git          *)
(***************************************************************************)
\* The path a numstat line stands under, as parseNumstat computes it.
NumstatPath(parts) ==
    IF Contains(parts[3], <<" ", "=", ">", " ">>) THEN extractNewPath(parts[3]) ELSE parts[3]

\* git lists a path once in each output.
InitDiff ==
    /\ numstatOutput \in
          {o \in SeqsUpTo(NumstatLines, MaxNumstatLines) :
              \A i, j \in 1..Len(o) :
                  (i # j /\ Len(o[i]) >= 3 /\ Len(o[j]) >= 3)
                      => NumstatPath(o[i]) # NumstatPath(o[j])}
    /\ nameStatusOutput \in
          {o \in SeqsUpTo(NameStatusLines, MaxNameStatusLines) :
              \A i, j \in 1..Len(o) :
                  (i # j /\ Len(o[i]) >= 2 /\ Len(o[j]) >= 2)
                      => o[i][Len(o[i])] # o[j][Len(o[j])]}
    /\ numstatMap = <<>>
    /\ parsedFiles = <<>>
    /\ parsedStats = ZeroStats
    /\ diffDone = FALSE
    /\ KeyIdle
    /\ GroupIdle
    /\ ReviewIdle
    /\ ListIdle
    /\ StoreIdle
    /\ SelectIdle
    /\ AnalysisIdle
    /\ ProxyIdle

GetDiffFiles ==
    /\ ~diffDone
    /\ numstatMap' = parseNumstat(numstatOutput)
    /\ LET res == parseNameStatus(nameStatusOutput, parseNumstat(numstatOutput))
       IN  /\ parsedFiles' = res.files
           /\ parsedStats' = res.stats
    /\ diffDone' = TRUE
    /\ UNCHANGED <<numstatOutput, nameStatusOutput, keyVars, groupVars, reviewVars,
                   listVars, storeVars, moreVars>>

NextDiff == GetDiffFiles

SpecDiff == InitDiff /\ [][NextDiff]_vars

(***************************************************************************)
(* Specification SpecSelect: prompt.SelectGroups applied to bounded inputs *)
(***************************************************************************)
InitSelect ==
    /\ selGroups \in SeqsUpTo(OrderGroups, MaxSel)
    /\ selInteractive \in BOOLEAN
    /\ selFormErr \in BOOLEAN
    /\ selChosen \in SUBSET {selGroups[i].Name : i \in 1..Len(selGroups)}
    /\ selResult = [err |-> FALSE, groups |-> <<>>]
    /\ selDone = FALSE
    /\ KeyIdle
    /\ GroupIdle
    /\ ReviewIdle
    /\ ListIdle
    /\ StoreIdle
    /\ DiffIdle
    /\ AnalysisIdle
    /\ ProxyIdle

ApplySelectGroups ==
    /\ ~selDone
    /\ selResult' = SelectGroups(selGroups, selInteractive, selFormErr, selChosen)
    /\ selDone' = TRUE
    /\ UNCHANGED <<selGroups, selInteractive, selFormErr, selChosen, keyVars, groupVars,
                   reviewVars, listVars, storeVars, diffVars, analysisVars, proxyVars>>

NextSelect == ApplySelectGroups

SpecSelect == InitSelect /\ [][NextSelect]_vars

(***************************************************************************)
(* Specification SpecAnalysis: calls of GetOrAnalyze on one repository     *)
(***************************************************************************)
InitAnalysis ==
    /\ anFile = NoAnalysisFile
    /\ anRuns = 0
    /\ anLast = NoCall
    /\ KeyIdle
    /\ GroupIdle
    /\ ReviewIdle
    /\ ListIdle
    /\ StoreIdle
    /\ DiffIdle
    /\ SelectIdle
    /\ ProxyIdle

analysisRest == <<keyVars, groupVars, reviewVars, listVars, storeVars, diffVars,
                  selectVars, proxyVars>>

\* How the call that has just returned ended: an error, a cached analysis,
\* a fresh analysis that was saved, a fresh analysis whose save failed.
CallKind(c) ==
    IF c.op # "GetOrAnalyze" THEN "none"
    ELSE IF c.err THEN "err"
    ELSE IF ~c.isNew THEN "hit"
    ELSE IF c.warned THEN "unsaved"
    ELSE "saved"

\* One call GetOrAnalyze(repoRoot, forceRefresh); analyzeOk and saveHow tell
\* whether Analyze succeeds and how Save ends.
GetOrAnalyze ==
    \E forceRefresh \in BOOLEAN, analyzeOk \in BOOLEAN,
       saveHow \in {"ok", "failed", "truncated"} :
        LET loaded == CacheLoad(anFile)
            fresh  == anRuns + 1
            saved  == CacheSave(anFile, fresh, saveHow)
            call(ran, res, isNew, err, warned) ==
                [op |-> "GetOrAnalyze", force |-> forceRefresh, before |-> anFile,
                 ran |-> ran, result |-> res, isNew |-> isNew, err |-> err,
                 warned |-> warned, prev |-> CallKind(anLast)]
        IN  /\ analyzeOk => anRuns < MaxRuns
            /\ IF ~forceRefresh /\ loaded.err
               THEN /\ anLast' = call(FALSE, 0, FALSE, TRUE, FALSE)
                    /\ UNCHANGED <<anFile, anRuns>>
               ELSE IF ~forceRefresh /\ loaded.analysis # 0
               THEN /\ anLast' = call(FALSE, loaded.analysis, FALSE, FALSE, FALSE)
                    /\ UNCHANGED <<anFile, anRuns>>
               ELSE IF ~analyzeOk
               THEN /\ anLast' = call(TRUE, 0, FALSE, TRUE, FALSE)
                    /\ UNCHANGED <<anFile, anRuns>>
               ELSE /\ anRuns' = fresh
                    /\ anFile' = saved.file
                    /\ anLast' = call(TRUE, fresh, TRUE, FALSE, saved.err)
            /\ UNCHANGED analysisRest

\* Between two calls the file is damaged, made unreadable or removed.
DisturbFile ==
    /\ anFile.exists
    /\ \E what \in {"damage", "revoke", "remove"} :
          /\ what = "damage" => anFile.parses
          /\ what = "revoke" => anFile.readable
          /\ anFile' = CASE what = "damage" -> [anFile EXCEPT !.parses = FALSE]
                         [] what = "revoke" -> [anFile EXCEPT !.readable = FALSE]
                         [] what = "remove" -> NoAnalysisFile
    /\ anLast' = [NoCall EXCEPT !.op = "disturb"]
    /\ UNCHANGED <<anRuns, analysisRest>>

NextAnalysis == GetOrAnalyze \/ DisturbFile

SpecAnalysis == InitAnalysis /\ [][NextAnalysis]_vars

(***************************************************************************)
(* Specification SpecProxy: concurrent calls on one copilot.ProxyManager   *)
(* A section of code that runs with m.mu held is one step.                 *)
(***************************************************************************)
MaxCalls == 3   \* most calls one caller begins
MaxProcs == 3   \* most subprocesses launched

InitProxy ==
    /\ ProxyIdle
    /\ KeyIdle
    /\ GroupIdle
    /\ ReviewIdle
    /\ ListIdle
    /\ StoreIdle
    /\ DiffIdle
    /\ SelectIdle
    /\ AnalysisIdle

proxyRest == <<keyVars, groupVars, reviewVars, listVars, storeVars, diffVars,
               selectVars, analysisVars>>

\* startLocked, for a caller that holds m.mu; ok tells whether cmd.Start()
\* succeeds.
startLocked(ok) ==
    IF cmd # 0 THEN [cmd |-> cmd, started |-> started, procs |-> procs, err |-> FALSE]
    ELSE IF ~ok THEN [cmd |-> 0, started |-> started, procs |-> procs, err |-> TRUE]
    ELSE [cmd |-> Len(procs) + 1, started |-> TRUE,
          procs |-> Append(procs, [alive |-> TRUE, signalled |-> FALSE]),
          err |-> FALSE]

Begin(t) == tpc[t] = Idle /\ tcalls[t] < MaxCalls /\ tcalls' = [tcalls EXCEPT ![t] = @ + 1]

\* Start(ctx): lock, startLocked, unlock.
Start(t) ==
    /\ Begin(t)
    /\ \E ok \in (IF Len(procs) < MaxProcs THEN BOOLEAN ELSE {FALSE}) :
          LET r == startLocked(ok)
          IN  cmd' = r.cmd /\ started' = r.started /\ procs' = r.procs
    /\ UNCHANGED <<tpc, tcmd, tlaunched, tret, proxyRest>>

\* EnsureRunning, line 36: the proxy answers, or the caller goes on to the lock.
EnsureRunning(t) ==
    /\ Begin(t)
    /\ tlaunched' = [tlaunched EXCEPT ![t] = 0]
    /\ tret' = [tret EXCEPT ![t] = NoReturn]
    /\ \E running \in BOOLEAN :
          IF running
          THEN UNCHANGED tpc
          ELSE tpc' = [tpc EXCEPT ![t] = [call |-> "EnsureRunning", at |-> "lock"]]
    /\ UNCHANGED <<cmd, started, procs, tcmd, proxyRest>>

\* EnsureRunning, lines 40-53: the section under the lock.
EnsureStart(t) ==
    /\ tpc[t] = [call |-> "EnsureRunning", at |-> "lock"]
    /\ IF cmd # 0
       THEN /\ tret' = [tret EXCEPT ![t] = NoReturn]
            /\ tpc' = [tpc EXCEPT ![t] = Idle]
            /\ UNCHANGED <<cmd, started, procs, tlaunched>>
       ELSE \E ok \in (IF Len(procs) < MaxProcs THEN BOOLEAN ELSE {FALSE}) :
               LET r == startLocked(ok)
               IN  /\ cmd' = r.cmd /\ started' = r.started /\ procs' = r.procs
                   /\ IF r.err
                      THEN /\ tret' = [tret EXCEPT ![t] = [val |-> FALSE, err |-> TRUE]]
                           /\ tpc' = [tpc EXCEPT ![t] = Idle]
                           /\ UNCHANGED tlaunched
                      ELSE /\ tlaunched' = [tlaunched EXCEPT ![t] = r.cmd]
                           /\ tpc' = [tpc EXCEPT ![t] = [call |-> "EnsureRunning", at |-> "wait"]]
                           /\ UNCHANGED tret
    /\ UNCHANGED <<tcmd, tcalls, proxyRest>>

\* EnsureRunning, lines 57-63: WaitReady returns; on an error Stop is called.
EnsureReady(t) ==
    /\ tpc[t] = [call |-> "EnsureRunning", at |-> "wait"]
    /\ \E ready \in BOOLEAN :
          IF ready
          THEN /\ tret' = [tret EXCEPT ![t] = [val |-> TRUE, err |-> FALSE]]
               /\ tpc' = [tpc EXCEPT ![t] = Idle]
          ELSE /\ tpc' = [tpc EXCEPT ![t] = [call |-> "EnsureRunning", at |-> "stop"]]
               /\ UNCHANGED tret
    /\ UNCHANGED <<cmd, started, procs, tcmd, tcalls, tlaunched, proxyRest>>

\* A call of Stop begins.
Stop(t) ==
    /\ Begin(t)
    /\ tpc' = [tpc EXCEPT ![t] = [call |-> "Stop", at |-> "stop"]]
    /\ UNCHANGED <<cmd, started, procs, tcmd, tlaunched, tret, proxyRest>>

\* What a caller goes back to when Stop returns.
AfterStop(t) ==
    /\ tpc' = [tpc EXCEPT ![t] = Idle]
    /\ IF tpc[t].call = "EnsureRunning"
       THEN tret' = [tret EXCEPT ![t] = [val |-> FALSE, err |-> TRUE]]
       ELSE UNCHANGED tret

\* Stop, lines 173-179: under the lock, cmd := m.cmd; return when it is nil.
StopRead(t) ==
    /\ tpc[t].at = "stop"
    /\ tcmd' = [tcmd EXCEPT ![t] = cmd]
    /\ IF cmd = 0
       THEN AfterStop(t)
       ELSE tpc' = [tpc EXCEPT ![t].at = "signal"] /\ UNCHANGED tret
    /\ UNCHANGED <<cmd, started, procs, tcalls, tlaunched, proxyRest>>

\* Stop, lines 181-193: without the lock, the interrupt is sent to the
\* subprocess, which has exited or has been killed when the select is left.
StopSignal(t) ==
    /\ tpc[t].at = "signal"
    /\ procs' = [procs EXCEPT ![tcmd[t]] = [alive |-> FALSE, signalled |-> TRUE]]
    /\ tpc' = [tpc EXCEPT ![t].at = "clear"]
    /\ UNCHANGED <<cmd, started, tcmd, tcalls, tlaunched, tret, proxyRest>>

\* Stop, lines 195-198: under the lock, m.cmd = nil and m.started = false.
StopClear(t) ==
    /\ tpc[t].at = "clear"
    /\ cmd' = 0
    /\ started' = FALSE
    /\ AfterStop(t)
    /\ UNCHANGED <<procs, tcmd, tcalls, tlaunched, proxyRest>>

NextProxy ==
    \E t \in Callers :
        \/ Start(t)
        \/ EnsureRunning(t)
        \/ EnsureStart(t)
        \/ EnsureReady(t)
        \/ Stop(t)
        \/ StopRead(t)
        \/ StopSignal(t)
        \/ StopClear(t)

SpecProxy == InitProxy /\ [][NextProxy]_vars

(***************************************************************************)
(* Specification SpecRound: Save(r) followed by Load(r.CacheKey)           *)
(***************************************************************************)
Summaries ==
    {[Overview |-> "o", KeyChanges |-> kc, Concerns |-> cs, FileGroups |-> NilSlice] :
        kc \in {NilSlice, Slice(<<"kc">>)},
        cs \in {NilSlice, Slice(<<>>), Slice(<<"c">>)}}

Orderings ==
    {[Files     |-> Slice(<<[Path |-> "p", Category |-> "other", Priority |-> 1,
                             Description |-> "", Group |-> g]>>),
      Groups    |-> gs,
      Reasoning |-> "r"] :
        g \in {"", "A"},
        gs \in {NilSlice, Slice(<<>>),
                Slice(<<[Name |-> "A", Description |-> "d", Priority |-> 1]>>)}}

ReviewResponses == {[Content |-> "c"]}

Times == {Time(w, m) : w \in 0..MaxClock, m \in BOOLEAN}

CachedReviews ==
    {[CacheKey     |-> k,
      BaseRef      |-> "main",
      CommitHashes |-> hs,
      Summary      |-> s,
      Ordering     |-> o,
      Review       |-> rv,
      CachedAt     |-> tm] :
        k  \in StoreKeys,
        hs \in {NilSlice, Slice(<<>>), Slice(<<"h">>)},
        s  \in {Nil(ZeroSummary)} \cup {Ptr(x) : x \in Summaries},
        o  \in {Nil(ZeroOrdering)} \cup {Ptr(x) : x \in Orderings},
        rv \in {Nil(ZeroReviewResponse)} \cup {Ptr(x) : x \in ReviewResponses},
        tm \in Times}

InitRound ==
    /\ cacheDir \in BOOLEAN
    /\ cacheFiles = NoMembers
    /\ now = 0
    /\ lastOp = NoOp
    /\ lastSaved = NeverSaved
    /\ rtRecord \in CachedReviews
    /\ rtPc = "save"
    /\ KeyIdle
    /\ GroupIdle
    /\ ReviewIdle
    /\ ListIdle
    /\ DiffIdle
    /\ SelectIdle
    /\ AnalysisIdle
    /\ ProxyIdle

roundRest == <<rtRecord, now, keyVars, groupVars, reviewVars, listVars, diffVars, moreVars>>

RoundSave ==
    /\ rtPc = "save"
    /\ LET res == Save(cacheFiles, cacheDir, rtRecord)
       IN  /\ cacheFiles' = res.files
           /\ cacheDir' = res.dir
           /\ lastOp' = Op("Save", rtRecord.CacheKey, rtRecord, FALSE, res.err, 0, 0)
           /\ lastSaved' = [lastSaved EXCEPT ![rtRecord.CacheKey] = Ptr(rtRecord)]
    /\ rtPc' = "load"
    /\ UNCHANGED roundRest

RoundLoad ==
    /\ rtPc = "load"
    /\ LET res == Load(cacheFiles, cacheDir, rtRecord.CacheKey)
       IN  lastOp' = Op("Load", rtRecord.CacheKey, res.rec, res.found, res.err, 0, 0)
    /\ rtPc' = "done"
    /\ UNCHANGED <<cacheFiles, cacheDir, lastSaved, roundRest>>

NextRound ==
    \/ RoundSave
    \/ RoundLoad

SpecRound == InitRound /\ [][NextRound]_vars

(***************************************************************************)
(* Specification Spec: one run of runReview                                *)
(***************************************************************************)
Init ==
    /\ pc = "start"
    /\ visited = {"start"}
    /\ ret = "none"
    /\ skipSummary \in BOOLEAN
    /\ skipOrdering \in BOOLEAN
    /\ aiProvider = FALSE
    /\ output = <<>>
    /\ orderCh = <<>>
    /\ chMade = FALSE
    /\ bg = "none"
    /\ bgResult = ZeroResult
    /\ cancelled = FALSE
    /\ summary = FALSE
    /\ sumCall = "notcalled"
    /\ result = ZeroResult
    /\ hasOrdered = FALSE
    /\ orderedFiles = EmptyResponse
    /\ filesToReview = <<>>
    /\ idx = 0
    /\ chWrites = <<>>
    /\ chReads = 0
    /\ firstDone = "none"
    /\ bgAtSumStart = "unset"
    /\ diffFiles \in DiffLists
    /\ cleanup = FALSE
    /\ waiter = "none"
    /\ KeyIdle
    /\ GroupIdle
    /\ ListIdle
    /\ StoreIdle
    /\ DiffIdle
    /\ SelectIdle
    /\ AnalysisIdle
    /\ ProxyIdle

\* The steps of the main flow and of the background unit.
Main ==
    \/ GetDiff
    \/ InitProvider
    \/ GetFullDiff
    \/ DispatchOrdering
    \/ SummarizeBegin
    \/ SummarizeReturn
    \/ ContinueGate
    \/ JoinOrdering
    \/ BuildList
    \/ DisplayFile
    \/ FinishReview
    \/ StopProxy
    \/ StopProxyDone

Background ==
    \/ OrderCallBegin
    \/ OrderCallReturn
    \/ SendOrderResult

\* The goroutine of ProxyManager.Stop.
ProxyWaiter == WaiterExit

Next ==
    \/ Main
    \/ Background
    \/ ProxyWaiter
    \/ Cancel

Spec == Init /\ [][Next]_vars

(***************************************************************************)
(* C1: for every baseRef and commit list, GenerateCacheKey returns the     *)
(* same key for every permutation of the commit list.                      *)
(***************************************************************************)
C1_KeyCommutative ==
    keyDone => \A p \in PermutationsOf(commits) :
                   GenerateCacheKey(baseRef, p) = cacheKey

\* A key was computed for a list that is not in sorted order and has two
\* different hashes, so some permutation really reorders the digest input.
C1_Witness ==
    /\ keyDone
    /\ Len(commits) = 3
    /\ StringLess(commits[2].Hash, commits[1].Hash)
    /\ commits[3].Hash = commits[1].Hash

(***************************************************************************)
(* C2: buildGroupedFileList keeps a file iff its Group is empty or is the  *)
(* name of a selected group; the kept files are exactly those, each once.  *)
(***************************************************************************)
Range(s) == {s[i] : i \in 1..Len(s)}

C2_FilterExact ==
    gDone =>
        /\ Range(gResult) =
              {f \in Range(gFiles) :
                  f.Group = "" \/ \E i \in 1..Len(gSelected) : gSelected[i].Name = f.Group}
        /\ \A i, j \in 1..Len(gResult) : i # j => gResult[i] # gResult[j]

\* A deselected file was removed while an ungrouped file and a selected one stay.
C2_Witness ==
    /\ gDone
    /\ \E f \in Range(gFiles) : f.Group # "" /\ f \notin Range(gResult)
    /\ \E f \in Range(gResult) : f.Group = ""
    /\ \E f \in Range(gResult) : f.Group # ""

C2_WitnessEmptySelection ==
    /\ gDone
    /\ gSelected = <<>>
    /\ \E f \in Range(gFiles) : f.Group # ""
    /\ \E f \in Range(gResult) : f.Group = ""

(***************************************************************************)
(* C3: in the output of buildGroupedFileList the files of selected groups  *)
(* are ordered by the position of their group in the selected-group list   *)
(* (for a name selected twice, its last position) and not by the group's   *)
(* own Priority, within one group by ascending file Priority; every        *)
(* ungrouped file comes after every grouped file, and the ungrouped files   *)
(* are in ascending Priority.                                              *)
(***************************************************************************)
SelPos(n) ==
    CHOOSE i \in 1..Len(gSelected) :
        /\ gSelected[i].Name = n
        /\ \A j \in 1..Len(gSelected) : gSelected[j].Name = n => j <= i

C3_GroupedOrder ==
    gDone =>
        \A i, j \in 1..Len(gResult) :
            i < j =>
                LET fi == gResult[i]
                    fj == gResult[j]
                IN  /\ ~(fi.Group = "" /\ fj.Group # "")
                    /\ (fi.Group # "" /\ fj.Group # "") =>
                           /\ SelPos(fi.Group) <= SelPos(fj.Group)
                           /\ fi.Group = fj.Group => fi.Priority <= fj.Priority
                    /\ (fi.Group = "" /\ fj.Group = "") => fi.Priority <= fj.Priority

\* The scenario of the claim: selection [B,A], files A1, B1, A2 give [B1, A1, A2].
C3_Witness ==
    LET A1 == [Path |-> 1, Priority |-> 1, Group |-> "A"]
        B1 == [Path |-> 2, Priority |-> 1, Group |-> "B"]
        A2 == [Path |-> 3, Priority |-> 2, Group |-> "A"]
    IN  /\ gDone
        /\ gSelected = <<[Name |-> "B", Priority |-> 2], [Name |-> "A", Priority |-> 1]>>
        /\ gFiles = <<A1, B1, A2>>
        /\ gResult = <<B1, A1, A2>>

\* An ungrouped file given first ends up behind a grouped one.
C3_WitnessUngroupedLast ==
    /\ gDone
    /\ Len(gFiles) = 3 /\ Len(gResult) = 3
    /\ gFiles[1].Group = "" /\ gFiles[2].Group # "" /\ gFiles[3].Group = ""
    /\ gFiles[1].Priority > gFiles[3].Priority
    /\ gResult = <<gFiles[2], gFiles[3], gFiles[1]>>

(***************************************************************************)
(* C4: no file header and no file diff is rendered before both the         *)
(* summarization call and the ordering call have returned (a result or an  *)
(* error), whichever returns first.                                        *)
(***************************************************************************)
FileShown == Printed("header") \/ Printed("diff") \/ Printed("warnDiff")

C4_NoDisplayBeforeBothDone ==
    FileShown => /\ sumCall # "running"
                 /\ bg \notin {"spawned", "calling"}

\* A file is shown after both calls were made, the summary having returned first.
C4_Witness ==
    /\ FileShown
    /\ sumCall \in {"ok", "err"}
    /\ bg = "exited"
    /\ firstDone = "summary"

\* The same with the ordering call having returned first.
C4_WitnessOrderingFirst ==
    /\ FileShown
    /\ sumCall \in {"ok", "err"}
    /\ bg = "exited"
    /\ firstDone = "ordering"

(***************************************************************************)
(* C5 as stated: whenever both AI calls are made, the ordering call began  *)
(* on the background unit before the summarization call began and was      *)
(* still running then, so that the two calls overlap.                      *)
(***************************************************************************)
C5_OrderingCallBeginsFirst ==
    (sumCall # "notcalled" /\ bg \in {"calling", "returned", "exited"})
        => bgAtSumStart = "calling"

(***************************************************************************)
(* C5 amended: when both AI calls are wanted, the background unit that     *)
(* makes the ordering call has been dispatched (the go statement executed) *)
(* before the summarization call begins, so the two calls can overlap; the *)
(* ordering call itself may begin after the summarization call has begun,  *)
(* or have returned before it begins.                                      *)
(***************************************************************************)
C5_DispatchedBeforeSummary ==
    (sumCall # "notcalled" /\ aiProvider /\ ~skipOrdering)
        => (bg # "none" /\ bgAtSumStart \notin {"unset", "none"})

\* Both calls are in progress at once, the ordering call having begun first.
C5_Witness ==
    /\ sumCall = "running"
    /\ bg = "calling"
    /\ bgAtSumStart = "calling"

\* The ordering call begins only after the summarization call has begun.
C5_WitnessLateStart ==
    /\ sumCall = "running"
    /\ bg = "calling"
    /\ bgAtSumStart = "spawned"

(***************************************************************************)
(* C6: once the cancellation signal has fired, the main flow is not        *)
(* blocked at the join: it can take a step even when the background        *)
(* ordering call has not returned.                                         *)
(***************************************************************************)
C6_JoinObservesCancel ==
    (pc = "join" /\ cancelled) => ENABLED Main

(***************************************************************************)
(* C7 as stated: when a run that made the channel is over, the channel was *)
(* written exactly once, by the background unit, and read exactly once.    *)
(***************************************************************************)
C7_WrittenByBgReadOnce ==
    (chMade /\ pc = "done" /\ bg \in {"none", "exited"})
        => /\ chWrites = <<"bg">>
           /\ chReads = 1

(***************************************************************************)
(* C7 amended: the channel is written at most once, by the background unit *)
(* when ordering is requested and by the main flow itself otherwise, and   *)
(* exactly once when that writer has finished; it is read at most once, by *)
(* the main flow: exactly once on every path through the join, never when  *)
(* the user declines at the continue prompt.                               *)
(***************************************************************************)
C7_ChannelAtMostOnce ==
    /\ Len(chWrites) <= 1
    /\ chReads <= 1
    /\ ~chMade => (chWrites = <<>> /\ chReads = 0)
    /\ chWrites # <<>> => chWrites[1] = (IF bg = "none" THEN "main" ELSE "bg")
    /\ (chMade /\ bg \in {"none", "exited"}) => Len(chWrites) = 1
    /\ chReads = 1 <=> "build" \in visited
    /\ chReads = 1 => Len(chWrites) = 1
    /\ Printed("reviewCancelled") => chReads = 0

\* The user declined: the background unit has written, nobody has read.
C7_Witness ==
    /\ pc = "done"
    /\ Printed("reviewCancelled")
    /\ chWrites = <<"bg">>
    /\ chReads = 0
    /\ Len(orderCh) = 1

(***************************************************************************)
(* C8: when a summary was produced and the user declines at the continue   *)
(* prompt, runReview returns nil and shows no file header, file diff,      *)
(* ordering or group selection afterwards.                                 *)
(***************************************************************************)
\* runReview has executed a return statement (the deferred stop of a proxy
\* that this run started may still be under way).
Returned == pc \in {"cleanup", "stopWait", "done"}

C8_DeclineHalts ==
    Printed("reviewCancelled") =>
        /\ summary
        /\ Returned
        /\ ret = "nil"
        /\ \A i \in 1..Len(output) :
              output[i] = Ev("reviewCancelled") =>
                  \A j \in (i + 1)..Len(output) : output[j] = Ev("stoppingProxy")
        /\ ~FileShown
        /\ ~Printed("ordering")
        /\ ~Printed("warnOrder")
        /\ ~Printed("groupSelection")
        /\ ~Printed("complete")
        /\ filesToReview = <<>>

\* The user declined while the ordering had already been delivered.
C8_Witness ==
    /\ Printed("reviewCancelled")
    /\ Printed("summary")
    /\ bg = "exited"
    /\ bgResult.hasFiles

(***************************************************************************)
(* C9: the continue gate is entered iff a summary was produced; when the   *)
(* summarization is skipped or fails there is no prompt, a failure only    *)
(* prints a warning, and the review goes on through the join to the file   *)
(* display.                                                                *)
(***************************************************************************)
C9_GateIffSummary ==
    /\ Printed("gate") => (summary /\ sumCall = "ok")
    /\ (sumCall = "ok" /\ pc # "gate") => Printed("gate")
    /\ summary <=> sumCall = "ok"
    /\ Printed("warnSummary") <=> sumCall = "err"
    /\ sumCall = "err" => (~Printed("summary") /\ ret # "err")
    /\ (sumCall \in {"notcalled", "err"} /\ pc = "done" /\ "gate" \in visited)
          => /\ ~Printed("gate")
             /\ "join" \in visited
             /\ "display" \in visited
             /\ Printed("complete")
             /\ ret = "nil"

\* The summarization failed and the review still displayed files to the end.
C9_Witness ==
    /\ sumCall = "err"
    /\ pc = "done"
    /\ Printed("header")
    /\ Printed("complete")

\* The summarization was skipped by the flag and the files were displayed.
C9_WitnessSkipped ==
    /\ sumCall = "notcalled"
    /\ aiProvider
    /\ pc = "done"
    /\ Printed("header")

(***************************************************************************)
(* C10: when the ordering call returns an error the review does not abort: *)
(* a warning is printed, the fallback list built from the diff files is    *)
(* used, and every file of the diff is displayed in diff-extraction order. *)
(***************************************************************************)
HeaderPaths ==
    LET h == SelectSeq(output, LAMBDA e : e.ev = "header")
    IN  [i \in 1..Len(h) |-> h[i].path]

C10_OrderingErrorFallback ==
    result.err =>
        /\ Printed("warnOrder")
        /\ ~Printed("ordering")
        /\ ~Printed("groupSelection")
        /\ ~hasOrdered
        /\ ret # "err"
        /\ pc \in {"display", "done"} =>
              filesToReview = [i \in 1..Len(diffFiles) |-> FallbackFile(diffFiles[i], i)]
        /\ pc = "done" =>
              /\ ret = "nil"
              /\ HeaderPaths = [i \in 1..Len(diffFiles) |-> diffFiles[i].Path]
              /\ Printed("complete")

\* The ordering call failed and the review ran to its end over two files.
C10_Witness ==
    /\ result.err
    /\ pc = "done"
    /\ Len(diffFiles) >= 2
    /\ Len(HeaderPaths) = Len(diffFiles)

C11_WitnessError ==
    /\ pc = "done"
    /\ diffFiles = <<>>
    /\ ret = "err"

(***************************************************************************)
(* C12: a file whose Group is non-empty but is the name of no declared     *)
(* OrderGroup is kept by buildGroupedFileList and placed with the          *)
(* ungrouped files, after every file of a selected group.                  *)
(***************************************************************************)
C12_UndeclaredGroupKept ==
    gDone =>
        \A i \in 1..Len(gFiles) :
            gFiles[i].Group \notin ({""} \cup GroupNames) =>
                \E j \in 1..Len(gResult) :
                    /\ gResult[j] = gFiles[i]
                    /\ \A k \in 1..Len(gResult) :
                          gResult[k].Group \in SelectedSet(gSelected) => k < j

(***************************************************************************)
(* C13: two files with the same Group and the same Priority come out of    *)
(* buildGroupedFileList in the relative order they had in its input, and   *)
(* exchanging them in the input exchanges them in the output and changes   *)
(* nothing else.                                                           *)
(***************************************************************************)
\* The sequence s with the elements at positions i and j exchanged.
SwapAt(s, i, j) ==
    [k \in 1..Len(s) |-> IF k = i THEN s[j] ELSE IF k = j THEN s[i] ELSE s[k]]

\* The sequence s with every a replaced by b and every b by a.
SwapValues(s, a, b) ==
    [k \in 1..Len(s) |-> IF s[k] = a THEN b ELSE IF s[k] = b THEN a ELSE s[k]]

\* The position of file f in the sequence s (0 when f is not in s).
PosOf(s, f) ==
    IF \E k \in 1..Len(s) : s[k] = f THEN CHOOSE k \in 1..Len(s) : s[k] = f ELSE 0

SameRank(f, g) == f.Group = g.Group /\ f.Priority = g.Priority

C13_StableOrder ==
    gDone =>
        \A i, j \in 1..Len(gFiles) :
            (i < j /\ SameRank(gFiles[i], gFiles[j])) =>
                /\ PosOf(gResult, gFiles[i]) # 0 =>
                      PosOf(gResult, gFiles[i]) < PosOf(gResult, gFiles[j])
                /\ buildGroupedFileList(SwapAt(gFiles, i, j), gSelected)
                      = SwapValues(gResult, gFiles[i], gFiles[j])

\* Two files of equal rank were kept, with a third file of equal rank between
\* them in the input and a file of another rank in the output.
C13_Witness ==
    /\ gDone
    /\ Len(gFiles) = 3
    /\ Len(gResult) = 3
    /\ SameRank(gFiles[2], gFiles[3])
    /\ ~SameRank(gFiles[1], gFiles[2])
    /\ gResult[1] # gFiles[1]

(***************************************************************************)
(* C14: without an AI ordering (a nil response or a response with zero     *)
(* files) buildFileList returns one OrderedFile per diff file, in the      *)
(* order of the diff, with Priority equal to the 1-based position, the     *)
(* Category of the static path categorizer and the Description of the      *)
(* file's status; this holds for every file list, the empty one included.  *)
(***************************************************************************)
\* The category that TestCategorizeFile and the categories' meaning give to
\* each path of the table.
ExpectedCategory ==
    <<"entry_point", "business_logic", "test", "adapter", "model", "config",
      "docs", "other">>

NoAIOrdering == ~lOrder.has \/ Len(lOrder.resp.Files) = 0

C14_FallbackList ==
    (lDone /\ NoAIOrdering) =>
        /\ Len(lResult) = Len(lFiles)
        /\ \A i \in 1..Len(lFiles) :
              /\ lResult[i].Path = lFiles[i].Path
              /\ lResult[i].Priority = i
              /\ lResult[i].Category = ExpectedCategory[lFiles[i].Path]
              /\ lResult[i].Group = ""
              /\ lResult[i].Description \in {"New file", "Deleted", "Renamed", "Modified"}
              /\ lResult[i].Description = "Modified" <=>
                    lFiles[i].Status \notin {"added", "deleted", "renamed"}

\* A response without files was given for two diff files, the second a test
\* file under a directory.
C14_Witness ==
    /\ lDone
    /\ lOrder.has
    /\ Len(lOrder.resp.Files) = 0
    /\ Len(lFiles) = 2
    /\ lResult[2].Category = "test"
    /\ lResult[2].Priority = 2

\* No response and the empty file list: the result is empty.
C14_WitnessEmpty ==
    /\ lDone
    /\ ~lOrder.has
    /\ lFiles = <<>>
    /\ lResult = <<>>

SameElems(a, b) == a.elems = b.elems

SameSummary(a, b) ==
    /\ a.has = b.has
    /\ a.val.Overview = b.val.Overview
    /\ a.val.KeyChanges = b.val.KeyChanges
    /\ SameElems(a.val.Concerns, b.val.Concerns)
    /\ SameElems(a.val.FileGroups, b.val.FileGroups)

SameOrdering(a, b) ==
    /\ a.has = b.has
    /\ a.val.Files = b.val.Files
    /\ SameElems(a.val.Groups, b.val.Groups)
    /\ a.val.Reasoning = b.val.Reasoning

C15_WitnessExact ==
    /\ rtPc = "done"
    /\ ~rtRecord.Summary.has /\ ~rtRecord.Ordering.has /\ ~rtRecord.Review.has
    /\ lastOp.rec = rtRecord

(***************************************************************************)
(* C16 as stated: Load(key) returns "absent" (nil, nil) when no file       *)
(* exists for the key and when the stored file does not parse; whatever    *)
(* the state of the cache file, Load never returns an error and never      *)
(* returns a record that was not saved.                                    *)
(***************************************************************************)
\* The record that Load returns for a file written by Save(r).
AsLoaded(r) == [r EXCEPT !.CachedAt = Time(r.CachedAt.wall, FALSE)]

FileMissing(k)    == ~cacheDir \/ k \notin DOMAIN cacheFiles
FileUnparsable(k) == ~FileMissing(k) /\ cacheFiles[k].readable /\ cacheFiles[k].kind = "garbage"
FileUnreadable(k) == ~FileMissing(k) /\ ~cacheFiles[k].readable

C16_LoadNeverFails ==
    lastOp.op = "Load" =>
        /\ (FileMissing(lastOp.key) \/ FileUnparsable(lastOp.key)) =>
              (~lastOp.found /\ ~lastOp.err)
        /\ ~lastOp.err
        /\ lastOp.found =>
              /\ lastSaved[lastOp.key].has
              /\ lastOp.rec = AsLoaded(lastSaved[lastOp.key].val)

(***************************************************************************)
(* C16 amended: Load(key) returns "absent" (nil, nil) when no file exists  *)
(* for the key and when the file's content does not parse; when the file   *)
(* exists but cannot be read it returns an error and no record; a record   *)
(* is returned only for a readable file that parses, and for a file that   *)
(* Save wrote it is the record last saved under the key.                   *)
(***************************************************************************)
C16_LoadAbsentOrReadError ==
    lastOp.op = "Load" =>
        /\ (FileMissing(lastOp.key) \/ FileUnparsable(lastOp.key)) =>
              (~lastOp.found /\ ~lastOp.err)
        /\ lastOp.err <=> FileUnreadable(lastOp.key)
        /\ lastOp.err => ~lastOp.found
        /\ lastOp.found =>
              /\ lastSaved[lastOp.key].has
              /\ lastOp.rec = AsLoaded(lastSaved[lastOp.key].val)

\* Load was applied to a damaged file and returned nothing.
C16_Witness ==
    /\ lastOp.op = "Load"
    /\ FileUnparsable(lastOp.key)
    /\ ~lastOp.found /\ ~lastOp.err

\* Load was applied to a file that cannot be read and returned an error.
C16_WitnessReadError ==
    /\ lastOp.op = "Load"
    /\ FileUnreadable(lastOp.key)
    /\ lastOp.err

\* Load was applied to a key whose file was cleared and returned nothing.
C16_WitnessMissing ==
    /\ lastOp.op = "Load"
    /\ FileMissing(lastOp.key)
    /\ lastSaved[lastOp.key].has
    /\ ~lastOp.found /\ ~lastOp.err

(***************************************************************************)
(* C17: ClearStale(maxAge) deletes exactly the stored records whose        *)
(* CachedAt is before now - maxAge, leaves every other file as it was and  *)
(* returns the number of records it deleted; a second ClearStale(maxAge)   *)
(* run right after it (at the same clock reading) removes nothing and      *)
(* returns zero.  The stored records are those of the files that can be    *)
(* read and parsed.                                                        *)
(***************************************************************************)
\* The keys whose file holds a readable record with CachedAt before cutoff.
StaleKeys(cutoff) ==
    {k \in DOMAIN cacheFiles :
        /\ cacheDir
        /\ cacheFiles[k].readable
        /\ cacheFiles[k].kind = "json"
        /\ lastSaved[k].has
        /\ lastSaved[k].val.CachedAt.wall < cutoff}

C17_ClearStaleStep ==
    (lastOp'.op = "ClearStale" /\ ~lastOp'.err) =>
        LET stale == StaleKeys(now - lastOp'.maxAge)
        IN  /\ DOMAIN cacheFiles' = DOMAIN cacheFiles \ stale
            /\ \A k \in DOMAIN cacheFiles' : cacheFiles'[k] = cacheFiles[k]
            /\ lastOp'.count = Cardinality(stale)
            /\ cacheDir' = cacheDir
            /\ lastOp'.again => (lastOp'.count = 0 /\ cacheFiles' = cacheFiles)

C17_ClearStaleExact == [][C17_ClearStaleStep]_vars

\* ClearStale has removed one of two stored records and left the fresh one.
C17_Witness ==
    /\ lastOp.op = "ClearStale"
    /\ lastOp.count = 1
    /\ Cardinality(DOMAIN cacheFiles) = 1
    /\ \E k \in DOMAIN cacheFiles :
          /\ cacheFiles[k].kind = "json"
          /\ lastSaved[k].val.CachedAt.wall >= now - lastOp.maxAge
    /\ \A k \in StoreKeys : lastSaved[k].has

\* A second run right after a run that removed a record returned zero.
C17_WitnessSecondRun ==
    /\ lastOp.op = "ClearStale"
    /\ lastOp.again
    /\ lastOp.count = 0
    /\ \E k \in StoreKeys :
          /\ lastSaved[k].has
          /\ k \notin DOMAIN cacheFiles
          /\ lastSaved[k].val.CachedAt.wall < now - lastOp.maxAge

\* A record whose CachedAt is exactly now - maxAge was left in place.
C17_WitnessAtCutoff ==
    /\ lastOp.op = "ClearStale"
    /\ lastOp.count = 0
    /\ \E k \in DOMAIN cacheFiles :
          /\ cacheFiles[k].kind = "json" /\ cacheFiles[k].readable
          /\ lastSaved[k].val.CachedAt.wall = now - lastOp.maxAge

(***************************************************************************)
(* C18: after any sequence of Save, Clear, ClearAll and ClearStale by one  *)
(* process the cache holds at most one record per cache key, and it is the *)
(* record most recently saved under that key; saving the same record twice *)
(* leaves the cache as saving it once does, and Save succeeds when the     *)
(* cache directory does not exist yet.                                     *)
(***************************************************************************)
C18_OneRecordPerKey ==
    /\ \A e1, e2 \in List(cacheFiles, cacheDir) :
          e1.rec.CacheKey = e2.rec.CacheKey => e1 = e2
    /\ \A e \in List(cacheFiles, cacheDir) :
          /\ e.rec.CacheKey = e.file
          /\ lastSaved[e.file].has
          /\ e.rec = AsLoaded(lastSaved[e.file].val)
    /\ ~cacheDir => DOMAIN cacheFiles = {}

C18_SaveStep ==
    (lastOp'.op = "Save" /\ ~lastOp'.err) =>
        /\ cacheDir'
        /\ lastOp'.key \in DOMAIN cacheFiles'
        /\ Load(cacheFiles', cacheDir', lastOp'.key) = Found(AsLoaded(lastOp'.rec))
        /\ \A k \in DOMAIN cacheFiles' \ {lastOp'.key} :
              k \in DOMAIN cacheFiles /\ cacheFiles'[k] = cacheFiles[k]
        /\ DOMAIN cacheFiles \subseteq DOMAIN cacheFiles'
        /\ (lastOp'.again /\ ~lastOp.err) => (cacheFiles' = cacheFiles /\ cacheDir' = cacheDir)

C18_SaveIntoMissingDir ==
    (lastOp'.op = "Save" /\ ~cacheDir) => ~lastOp'.err

C18_CacheHoldsLastSaved ==
    /\ []C18_OneRecordPerKey
    /\ [][C18_SaveStep /\ C18_SaveIntoMissingDir]_vars

\* A record was saved over another record of the same key, after the cache
\* directory had been removed and made again by an earlier Save.
C18_Witness ==
    /\ lastOp.op = "Save"
    /\ ~lastOp.err
    /\ \E e \in List(cacheFiles, cacheDir) :
          /\ e.file = lastOp.key
          /\ e.rec.CachedAt.wall = 1
    /\ Cardinality(DOMAIN cacheFiles) = 2
    /\ now > 0

\* The same record was saved twice in a row.
C18_WitnessSavedTwice ==
    /\ lastOp.op = "Save"
    /\ lastOp.again
    /\ ~lastOp.err

\* The directory is gone after ClearAll although records had been saved.
C18_WitnessDirRemoved ==
    /\ lastOp.op = "ClearAll"
    /\ ~cacheDir
    /\ \A k \in StoreKeys : lastSaved[k].has

(***************************************************************************)
(* C19: GenerateCacheKey returns different keys for two inputs whenever    *)
(* their baseRef differs or their sets of commit hashes differ, for every  *)
(* pair of inputs over the bounded sets of refs and hashes.                *)
(***************************************************************************)
HashSet(cs) == {cs[i].Hash : i \in 1..Len(cs)}

C19_KeysDiffer ==
    keyDone =>
        \A ref2 \in BaseRefs, cs2 \in SeqsUpTo(Commits, MaxCommits) :
            (ref2 # baseRef \/ HashSet(cs2) # HashSet(commits)) =>
                GenerateCacheKey(ref2, cs2) # cacheKey

\* A key was computed for an input whose bytes, written without separators,
\* are those of another input with a longer baseRef and no commits.
C19_Witness ==
    /\ keyDone
    /\ baseRef = <<3>>
    /\ CommitHashList(commits) = << <<1>> >>
    /\ <<3, 1>> \in BaseRefs
    /\ GenerateCacheKey(<<3, 1>>, <<>>) # cacheKey

\* A key was computed for two commits whose hashes, written without
\* separators, are the hash of a third commit.
C19_WitnessHashes ==
    /\ keyDone
    /\ HashSet(commits) = {<<1>>, <<2>>}
    /\ GenerateCacheKey(baseRef, <<[Hash |-> <<1, 2>>]>>) # cacheKey

(***************************************************************************)
(* C20 as stated: at every moment at most one execution unit besides the   *)
(* main flow is active, and that unit is the background ordering call; no  *)
(* other step (provider setup and cleanup, proxy start and stop,           *)
(* rendering) runs a second concurrent unit.                               *)
(***************************************************************************)
\* The ordering goroutine exists and has not finished.
OrderingUnitActive == bg \in {"spawned", "calling", "returned"}
\* The goroutine of ProxyManager.Stop exists and has not finished.
WaiterUnitActive == waiter = "running"

C20_OnlyOrderingUnit == ~WaiterUnitActive

(***************************************************************************)
(* C20 amended: runReview itself starts one execution unit, the goroutine  *)
(* of the ordering call, and only when ordering is requested; as long as   *)
(* runReview has a provider and has not executed a return statement it is  *)
(* the only unit besides the main flow.  ProxyManager.Stop starts a second *)
(* unit, a goroutine waiting for the proxy process: in the deferred        *)
(* cleanup when this run started the proxy, or in provider setup when the  *)
(* proxy did not get ready.  The two are active at the same time only when *)
(* the user declined at the gate while the ordering call was running.      *)
(***************************************************************************)
C20_UnitsBesidesMain ==
    /\ OrderingUnitActive => (aiProvider /\ ~skipOrdering /\ chMade)
    /\ (aiProvider /\ ~Returned) => waiter = "none"
    /\ waiter # "none" =>
          \/ cleanup /\ aiProvider /\ pc \in {"stopWait", "done"}
          \/ ~cleanup /\ ~aiProvider /\ Printed("warnProvider")
    /\ (OrderingUnitActive /\ WaiterUnitActive) =>
          (Printed("reviewCancelled") /\ Printed("stoppingProxy"))

\* The ordering goroutine and the goroutine of Stop are active together.
C20_Witness ==
    /\ OrderingUnitActive
    /\ WaiterUnitActive

\* Stop's goroutine is still running after runReview was left at the end of
\* a complete review.
C20_WitnessAfterReview ==
    /\ pc = "done"
    /\ Printed("complete")
    /\ WaiterUnitActive

\* The proxy did not get ready: Stop's goroutine runs during a review
\* without provider.
C20_WitnessSetup ==
    /\ ~aiProvider
    /\ WaiterUnitActive
    /\ pc = "display"

(***************************************************************************)
(* C21: a renamed file whose numstat line is in a rename encoding          *)
(* ("old => new" or "dir/{old => new}/rest") with counts (0,0) is joined   *)
(* to its name-status record under the new path and reported as exactly    *)
(* one file with Path = new path, OldPath = old path, Status renamed,      *)
(* zero counts and IsBinary false.                                         *)
(***************************************************************************)
Arrow == <<" ", "=", ">", " ">>

C21_PureRenameNotBinary ==
    diffDone =>
        \A ns \in Range(nameStatusOutput), n \in Range(numstatOutput) :
            ( /\ Len(ns) >= 3
              /\ HasPrefix(ns[1], <<"R">>)
              /\ Len(n) >= 3
              /\ Contains(n[3], Arrow)
              /\ Atoi(n[1]) = 0
              /\ Atoi(n[2]) = 0
              /\ NumstatPath(n) = ns[3] )
            => /\ Cardinality({k \in DOMAIN parsedFiles :
                                  parsedFiles[k].Path = ns[3]}) = 1
               /\ \E k \in DOMAIN parsedFiles :
                     parsedFiles[k] = [Path |-> ns[3], OldPath |-> ns[2],
                                       Status |-> "renamed", Additions |-> 0,
                                       Deletions |-> 0, IsBinary |-> FALSE]

(***************************************************************************)
(* C22: parseNameStatus maps status code A to added, M to modified, D to   *)
(* deleted, every code starting with R to renamed with OldPath and Path    *)
(* from the old/new pair (the single path as Path and an empty OldPath     *)
(* when the pair is missing), and every code starting with C to added with *)
(* only the new path kept and an empty OldPath.                            *)
(***************************************************************************)
\* The name-status lines that have a status code and a path.
Records == SelectSeq(nameStatusOutput, LAMBDA l : Len(l) >= 2)

C22_StatusMapping ==
    diffDone =>
        /\ Len(parsedFiles) = Len(Records)
        /\ \A k \in 1..Len(Records) :
              LET l == Records[k]
                  f == parsedFiles[k]
                  single == f.Path = l[2] /\ f.OldPath = <<>>
              IN  /\ l[1] = <<"A">> => (f.Status = "added" /\ single)
                  /\ l[1] = <<"M">> => (f.Status = "modified" /\ single)
                  /\ l[1] = <<"D">> => (f.Status = "deleted" /\ single)
                  /\ l[1][1] = "R" =>
                        /\ f.Status = "renamed"
                        /\ IF Len(l) >= 3 THEN f.OldPath = l[2] /\ f.Path = l[3]
                           ELSE single
                  /\ l[1][1] = "C" =>
                        /\ f.Status = "added"
                        /\ f.OldPath = <<>>
                        /\ f.Path = l[Len(l)]

\* A copy with its pair and a rename without its pair have been parsed.
C22_Witness ==
    /\ diffDone
    /\ \E k \in 1..Len(Records) : Records[k][1][1] = "C" /\ Len(Records[k]) = 3
    /\ \E k \in 1..Len(Records) : Records[k][1][1] = "R" /\ Len(Records[k]) = 2

\* A rename with its pair and a deletion have been parsed.
C22_WitnessRenamePair ==
    /\ diffDone
    /\ \E k \in 1..Len(Records) : Records[k][1][1] = "R" /\ Len(Records[k]) = 3
    /\ \E k \in 1..Len(Records) : Records[k][1] = <<"D">>

(***************************************************************************)
(* C23: each returned file carries the additions and deletions of the      *)
(* numstat line of its path (zero when there is none), so the sum of the   *)
(* files' Additions equals the additions of the numstat lines whose file   *)
(* is in both outputs.                                                     *)
(***************************************************************************)
\* The file a numstat line is about: the new path of "old => new" and of
\* "pre{old => new}post"; where new is empty, "pre/{old => }/post" names
\* pre/post.
NumstatFile(parts) ==
    LET p == parts[3]
        open  == CHOOSE i \in 1..Len(p) : p[i] = "{"
        close == CHOOSE i \in 1..Len(p) : p[i] = "}"
        arrow == CHOOSE i \in 1..(Len(p) - 3) : SubSeq(p, i, i + 3) = Arrow
        pre   == SubSeq(p, 1, open - 1)
        new   == SubSeq(p, arrow + 4, close - 1)
        post  == SubSeq(p, close + 1, Len(p))
    IN  IF ~Contains(p, Arrow) THEN p
        ELSE IF ~Contains(p, <<"{">>) THEN SubSeq(p, arrow + 4, Len(p))
        ELSE IF new = <<>> /\ pre # <<>> /\ post # <<>> THEN pre \o Tail(post)
        ELSE pre \o new \o post

RECURSIVE SumSeq(_)
SumSeq(ns) == IF ns = <<>> THEN 0 ELSE ns[1] + SumSeq(Tail(ns))

\* The numstat lines that have counts and a path.
Counted == SelectSeq(numstatOutput, LAMBDA l : Len(l) >= 3)

C23_CountsJoined ==
    diffDone =>
        /\ \A k \in 1..Len(parsedFiles) :
              LET f == parsedFiles[k]
                  own == {i \in 1..Len(Counted) : NumstatFile(Counted[i]) = f.Path}
              IN  IF own = {} THEN f.Additions = 0 /\ f.Deletions = 0
                  ELSE \E i \in own : /\ f.Additions = Atoi(Counted[i][1])
                                      /\ f.Deletions = Atoi(Counted[i][2])
        /\ SumSeq([k \in 1..Len(parsedFiles) |-> parsedFiles[k].Additions])
              = SumSeq([i \in 1..Len(Counted) |->
                           IF \E k \in 1..Len(parsedFiles) :
                                 parsedFiles[k].Path = NumstatFile(Counted[i])
                           THEN Atoi(Counted[i][1]) ELSE 0])

(***************************************************************************)
(* C24: parseNameStatus returns Stats with FilesChanged equal to the       *)
(* number of returned files and Additions and Deletions equal to the sums  *)
(* of the returned files' Additions and Deletions, whatever the status of  *)
(* a file: every file is counted exactly once.                             *)
(***************************************************************************)
C24_StatsAreSums ==
    diffDone =>
        /\ parsedStats.FilesChanged = Len(parsedFiles)
        /\ parsedStats.Additions =
              SumSeq([k \in 1..Len(parsedFiles) |-> parsedFiles[k].Additions])
        /\ parsedStats.Deletions =
              SumSeq([k \in 1..Len(parsedFiles) |-> parsedFiles[k].Deletions])

\* Two files, one renamed with counts of its own, have been counted.
C24_Witness ==
    /\ diffDone
    /\ Len(parsedFiles) = 2
    /\ \E k \in 1..2 : parsedFiles[k].Status = "renamed" /\ parsedFiles[k].Additions > 0
    /\ \E k \in 1..2 : parsedFiles[k].Status # "renamed" /\ parsedFiles[k].Deletions > 0

\* A copied file has been counted.
C24_WitnessCopy ==
    /\ diffDone
    /\ parsedStats.FilesChanged = 1
    /\ Records[1][1][1] = "C"

(***************************************************************************)
(* C25 as stated: a malformed numstat or name-status line (too few fields, *)
(* non-numeric counts, unknown status code) is skipped: it produces no     *)
(* numstat entry and no file record and does not change Stats.             *)
(***************************************************************************)
Numeric(s) ==
    Len(s) > 0 /\ \A i \in 1..Len(s) : s[i] \in {"0", "1", "2", "3", "4", "5", "6", "7", "8", "9"}
KnownCode(code) == code \in {<<"A">>, <<"M">>, <<"D">>} \/ code[1] \in {"R", "C"}
WellFormedNumstat == SelectSeq(Counted, LAMBDA l : Numeric(l[1]) /\ Numeric(l[2]))
WellFormedRecords == SelectSeq(Records, LAMBDA l : KnownCode(l[1]))

IsSubseq(s, t) ==
    \E f \in [1..Len(s) -> 1..Len(t)] :
        /\ \A i, j \in 1..Len(s) : i < j => f[i] < f[j]
        /\ \A i \in 1..Len(s) : s[i] = t[f[i]]

SelNames(gs) == {gs[i].Name : i \in 1..Len(gs)}

\* C26 as stated: SelectGroups returns an error for an empty group list; for
\* a non-empty list it returns a non-empty subsequence of the input groups in
\* their original order, and all groups when the session is not interactive
\* or when the user selected nothing.
C26_SelectsSubsequence ==
    selDone =>
        /\ Len(selGroups) = 0 => selResult.err
        /\ Len(selGroups) > 0 =>
              /\ ~selResult.err
              /\ Len(selResult.groups) > 0
              /\ IsSubseq(selResult.groups, selGroups)
              /\ (~selInteractive \/ selChosen = {}) => selResult.groups = selGroups

\* C26 amended: SelectGroups returns an error for an empty group list and,
\* in an interactive session with a non-empty list, when the selection form
\* fails; otherwise it returns a non-empty subsequence of the input groups in
\* their original order: all groups when the session is not interactive or
\* when the user selected nothing, and else exactly the groups whose names
\* were selected.
C26_SelectsSubsequenceOrFormError ==
    selDone =>
        /\ selResult.err <=> (Len(selGroups) = 0 \/ (selInteractive /\ selFormErr))
        /\ ~selResult.err =>
              /\ Len(selResult.groups) > 0
              /\ IsSubseq(selResult.groups, selGroups)
              /\ (~selInteractive \/ selChosen = {}) => selResult.groups = selGroups
              /\ (selInteractive /\ selChosen # {}) =>
                    /\ SelNames(selResult.groups) = selChosen
                    /\ Len(selResult.groups) =
                          Cardinality({i \in 1..Len(selGroups) : selGroups[i].Name \in selChosen})

\* The user ticks some but not all of the groups.
C26_Witness ==
    /\ selDone
    /\ selInteractive
    /\ ~selFormErr
    /\ selChosen # {}
    /\ ~selResult.err
    /\ Len(selResult.groups) < Len(selGroups)

\* The user ticks nothing and gets every group.
C26_WitnessNothingSelected ==
    /\ selDone
    /\ selInteractive
    /\ ~selFormErr
    /\ selChosen = {}
    /\ Len(selGroups) > 1
    /\ selResult.groups = selGroups

\* The form fails on a non-empty list.
C26_WitnessFormFails ==
    /\ selDone
    /\ Len(selGroups) > 0
    /\ selInteractive
    /\ selFormErr
    /\ selResult.err


(***************************************************************************)
(* C27: what GetOrAnalyze returns                                          *)
(***************************************************************************)
AnalyzeReturned == anLast.op = "GetOrAnalyze"

\* The call returned an analysis and no error.
Succeeded(kind) == kind \in {"hit", "saved", "unsaved"}

C27_WitnessAfterFailedSave ==
    /\ AnalyzeReturned
    /\ anLast.prev = "unsaved"
    /\ ~anLast.force
    /\ anLast.isNew
    /\ anRuns = 2

\* A cache file that cannot be read.
C27_WitnessReadError ==
    /\ AnalyzeReturned
    /\ ~anLast.force
    /\ anLast.before.exists /\ ~anLast.before.readable
    /\ anLast.err

\* forceRefresh replaces a parseable cached analysis.
C27_WitnessRefresh ==
    /\ AnalyzeReturned
    /\ anLast.force
    /\ anLast.before.exists /\ anLast.before.parses /\ anLast.before.readable
    /\ anLast.isNew /\ ~anLast.warned
    /\ anFile.data # anLast.before.data


(***************************************************************************)
(* C28: the background ordering unit delivers its result and terminates    *)
(***************************************************************************)
\* The Go scheduler runs a goroutine that is ready to send; nothing is
\* assumed about the provider call or about the main flow.
SpecLive == Spec /\ WF_vars(SendOrderResult)

\* C28: on every path of runReview the background unit's send on orderCh can
\* complete as soon as the ordering call has returned, whether or not the
\* main flow ever receives, and so the unit terminates once the call returns.
C28_UnitDelivers ==
    /\ [](bg = "returned" => ENABLED SendOrderResult)
    /\ (bg = "returned") ~> (bg = "exited")

\* The user declined at the gate, runReview returned without receiving, and
\* the unit has sent its result and ended.
C28_Witness ==
    /\ Printed("reviewCancelled")
    /\ Returned
    /\ chReads = 0
    /\ bg = "exited"
    /\ Len(orderCh) = 1

\* The unit's call returns only after runReview has returned on a decline.
C28_WitnessLateReturn ==
    /\ Printed("reviewCancelled")
    /\ Returned
    /\ bg = "returned"
    /\ orderCh = <<>>


(***************************************************************************)
(* C29: with an AI ordering, every changed file is displayed exactly once  *)
(***************************************************************************)
\* The paths of the file headers rendered so far, in order.
DisplayedPaths ==
    LET heads == SelectSeq(output, LAMBDA e : e.ev = "header")
    IN  [i \in 1..Len(heads) |-> heads[i].path]

DiffPaths == {diffFiles[i].Path : i \in 1..Len(diffFiles)}

\* The response's files are what runReview builds its list from.
AIOrderUsed == hasOrdered /\ (Len(orderedFiles.Files) > 0 \/ Len(orderedFiles.Groups) > 0)

\* The list runReview builds when every group of the response stays selected
\* (or there are no groups to select from).
FullSelectionList ==
    IF Len(orderedFiles.Groups) > 0
    THEN buildGroupedFileList(orderedFiles.Files, orderedFiles.Groups)
    ELSE buildFileList(diffFiles, hasOrdered, orderedFiles)

\* C29: when an AI ordering is used and the user deselects no group, every
\* changed file of the DiffResult appears exactly once in the sequence of
\* displayed files, and no path that is not in the DiffResult is displayed.
C29_EachFileOnce ==
    (Printed("complete") /\ AIOrderUsed /\ filesToReview = FullSelectionList) =>
        /\ {DisplayedPaths[i] : i \in 1..Len(DisplayedPaths)} = DiffPaths
        /\ Len(DisplayedPaths) = Len(diffFiles)

\* The same for responses that name every changed file once, no other path,
\* and only declared groups or none.
FaithfulResponse ==
    /\ Len(orderedFiles.Files) = Len(diffFiles)
    /\ {orderedFiles.Files[i].Path : i \in 1..Len(orderedFiles.Files)} = DiffPaths
    /\ \A i \in 1..Len(orderedFiles.Files) :
          \/ orderedFiles.Files[i].Group = ""
          \/ \E g \in 1..Len(orderedFiles.Groups) :
                orderedFiles.Groups[g].Name = orderedFiles.Files[i].Group

C29_EachFileOnceIfFaithful ==
    (Printed("complete") /\ AIOrderUsed /\ filesToReview = FullSelectionList /\ FaithfulResponse) =>
        /\ {DisplayedPaths[i] : i \in 1..Len(DisplayedPaths)} = DiffPaths
        /\ Len(DisplayedPaths) = Len(diffFiles)

\* A faithful response with groups was displayed in full.
C29_WitnessFaithful ==
    /\ Printed("complete")
    /\ AIOrderUsed
    /\ filesToReview = FullSelectionList
    /\ FaithfulResponse
    /\ Len(diffFiles) = 2
    /\ Len(orderedFiles.Groups) > 0


(***************************************************************************)
(* C30: one ProxyManager under interleaved EnsureRunning, Start and Stop   *)
(***************************************************************************)
Launched == 1..Len(procs)

AliveProcs == {p \in Launched : procs[p].alive}

\* C30: however the calls interleave, at most one subprocess that the
\* manager started is alive; every subprocess the manager no longer refers to
\* has been signalled to stop; and EnsureRunning has returned true only to a
\* call that launched a subprocess.
C30_OneProxyNeverForgotten ==
    /\ Cardinality(AliveProcs) <= 1
    /\ \A p \in Launched : cmd # p => procs[p].signalled
    /\ \A t \in Callers : tret[t].val => tlaunched[t] # 0

\* The parts of C30 one by one.
C30_AtMostOneAlive == Cardinality(AliveProcs) <= 1

C30_ForgetsOnlySignalled == \A p \in Launched : cmd # p => procs[p].signalled

C30_TrueOnlyToLauncher == \A t \in Callers : tret[t].val => tlaunched[t] # 0

\* With a single caller the calls do not interleave.
C30_SequentialCalls ==
    (tcalls[2] = 0) => (C30_AtMostOneAlive /\ C30_ForgetsOnlySignalled)

C30_WitnessSequential ==
    /\ tcalls[2] = 0
    /\ tcalls[1] = MaxCalls
    /\ Len(procs) = 2
    /\ cmd = 2

====
